---- MODULE Spec2Model ----
(***************************************************************************)
(* brew-buddy: the ingest-reconcile-retrieve pipeline.                     *)
(*                                                                         *)
(* The coffee table and the search_history table of the SQLite store, the  *)
(* scrape command (mark-all-inactive, scrape, upsert, auto-embed), the     *)
(* embed command, the web UI listing and search, and the history clears.   *)
(* Every SQL statement outside a transaction commits on its own, so each   *)
(* is one step; the upsert batch of SaveData is one transaction and so one *)
(* step.  Strings are sequences of one-character strings, so that trimming,*)
(* lower-casing and substring search are computed, not assumed.            *)
(***************************************************************************)
EXTENDS Integers, Sequences, FiniteSets, TLC

\* ---------------------------------------------------------------- bounds
\* Number of commands (scrape, embed, clear) and web requests started in a
\* behaviour.
MaxOps == 3

\* ------------------------------------------------------- strings (Go)
\* A string is a sequence of characters; "" is the empty sequence.
EmptyString == << >>

\* unicode.ToLower on the characters the model uses.
LowerChar(c) ==
  CASE c = "B" -> "b"
    [] c = "L" -> "l"
    [] c = "K" -> "k"
    [] c = "F" -> "f"
    [] c = "A" -> "a"
    [] c = "X" -> "x"
    [] OTHER -> c

\* strings.ToLower
ToLower(s) == [i \in 1..Len(s) |-> LowerChar(s[i])]

IsSpace(c) == c = " "

RECURSIVE TrimLeft(_)
TrimLeft(s) ==
  IF s = << >> THEN s
  ELSE IF IsSpace(Head(s)) THEN TrimLeft(Tail(s)) ELSE s

RECURSIVE TrimRight(_)
TrimRight(s) ==
  IF s = << >> THEN s
  ELSE IF IsSpace(s[Len(s)]) THEN TrimRight(SubSeq(s, 1, Len(s) - 1)) ELSE s

\* strings.TrimSpace
TrimSpace(s) == TrimRight(TrimLeft(s))

\* strings.Contains(s, sub)
Contains(s, sub) ==
  \E i \in 1..(Len(s) + 1) :
     /\ i + Len(sub) - 1 <= Len(s)
     /\ SubSeq(s, i, i + Len(sub) - 1) = sub

\* ----------------------------------------------------- SQL cell values
\* A nullable column holds NULL or one value.
NULL == << >>
Cell(v) == << v >>
IsNull(c) == c = NULL
ValueOf(c) == c[1]

\* sql.NullString{String: s, Valid: s != ""} as bound to a statement.
NullString(s) == IF s # EmptyString THEN Cell(s) ELSE NULL
\* sql.NullFloat64{Float64: f, Valid: f > 0}; f is a decimal record.
NullFloat64(f) == IF f.m > 0 THEN Cell(f) ELSE NULL

\* ------------------------------------------------------------ numbers
\* A decimal number m / 10^e, kept normalised (no trailing zero digit in the
\* fraction), so that equal values are equal records.
RECURSIVE Normalise(_)
Normalise(d) ==
  IF d.e > 0 /\ d.m % 10 = 0 THEN Normalise([m |-> d.m \div 10, e |-> d.e - 1])
  ELSE d

Zero == [m |-> 0, e |-> 0]

Digits == {"0", "1", "2", "3", "4", "5", "6", "7", "8", "9"}

DigitValue(c) ==
  CASE c = "0" -> 0 [] c = "1" -> 1 [] c = "2" -> 2 [] c = "3" -> 3
    [] c = "4" -> 4 [] c = "5" -> 5 [] c = "6" -> 6 [] c = "7" -> 7
    [] c = "8" -> 8 [] c = "9" -> 9

\* rePrice = `[^\d\.]+`, ReplaceAllString(priceStr, ""): keep digits and dots.
RECURSIVE StripNonPrice(_)
StripNonPrice(s) ==
  IF s = << >> THEN << >>
  ELSE IF Head(s) \in Digits \cup {"."}
       THEN << Head(s) >> \o StripNonPrice(Tail(s))
       ELSE StripNonPrice(Tail(s))

CountDots(s) == Cardinality({i \in 1..Len(s) : s[i] = "."})

\* The digits of s read as one integer, the dot skipped.
RECURSIVE Mantissa(_, _)
Mantissa(s, acc) ==
  IF s = << >> THEN acc
  ELSE IF Head(s) = "." THEN Mantissa(Tail(s), acc)
       ELSE Mantissa(Tail(s), acc * 10 + DigitValue(Head(s)))

\* Number of digits after the dot.
FractionDigits(s) ==
  IF CountDots(s) = 0 THEN 0
  ELSE Len(s) - (CHOOSE i \in 1..Len(s) : s[i] = ".")

\* A variant that reads the longest prefix that is a number, as strtod does.
ParseFloatPrefix(s) ==
  LET dots == {i \in 1..Len(s) : s[i] = "."}
      prefix == IF Cardinality(dots) > 1
                THEN SubSeq(s, 1, (CHOOSE i \in dots :
                                     Cardinality({j \in dots : j < i}) = 1) - 1)
                ELSE s
  IN IF Len(prefix) - CountDots(prefix) = 0 THEN Zero
     ELSE Normalise([m |-> Mantissa(prefix, 0), e |-> FractionDigits(prefix)])

\* strconv.ParseFloat on a string of digits and dots; the error is dropped by
\* the caller, and on a syntax error the value is 0.
ParseFloat(s) ==
  IF CountDots(s) > 1 \/ Len(s) - CountDots(s) = 0 THEN Zero
  ELSE Normalise([m |-> Mantissa(s, 0), e |-> FractionDigits(s)])

parsePrice(priceStr) == ParseFloat(StripNonPrice(priceStr))

\* ------------------------------------------------------------ vectors
\* A float32 is held by its IEEE-754 bit pattern; the patterns of the model
\* have the sign bit clear, so they are numbers below 2^31.
\* binary.Write(buf, binary.LittleEndian, floats): 4 bytes per float, least
\* significant byte first, no header.
RECURSIVE Pow256(_)
Pow256(k) == IF k = 0 THEN 1 ELSE 256 * Pow256(k - 1)

FloatsToBytes(floats) ==
  [i \in 1..(4 * Len(floats)) |->
     (floats[((i - 1) \div 4) + 1] \div Pow256((i - 1) % 4)) % 256]

\* A NaN (exponent bits all ones, fraction not zero) whose first fraction
\* bit is clear.
IsSignallingNaN(bits) ==
  /\ (bits \div 8388608) % 256 = 255
  /\ bits % 8388608 # 0
  /\ (bits \div 4194304) % 2 = 0

\* binary.Read is given &floats, a pointer to a slice, which its fast path
\* does not cover: each element is stored by
\* v.SetFloat(float64(math.Float32frombits(u))), and the conversion of a
\* signalling NaN to float64 and back sets its first fraction bit.
Float32Stored(bits) ==
  IF IsSignallingNaN(bits) THEN bits + 4194304 ELSE bits

\* A variant that drops the bytes after the last whole float.
BytesToFloatsTruncating(b) ==
  [ok |-> TRUE,
   floats |-> [j \in 1..(Len(b) \div 4) |->
                 Float32Stored(b[4 * (j - 1) + 1] + 256 * b[4 * (j - 1) + 2]
                               + 65536 * b[4 * (j - 1) + 3]
                               + 16777216 * b[4 * (j - 1) + 4])]]

\* BytesToFloats: [ok, floats]; a length that is no multiple of 4 is an error.
BytesToFloats(b) ==
  IF Len(b) % 4 # 0 THEN [ok |-> FALSE, floats |-> << >>]
  ELSE [ok |-> TRUE,
        floats |-> [j \in 1..(Len(b) \div 4) |->
                      Float32Stored(b[4 * (j - 1) + 1] + 256 * b[4 * (j - 1) + 2]
                                    + 65536 * b[4 * (j - 1) + 3]
                                    + 16777216 * b[4 * (j - 1) + 4])]]

\* The float32 values the embedding backend answers with in the model, by bit
\* pattern, and their numeric values.
FloatValue(bits) ==
  CASE bits = 0 -> 0
    [] bits = 1065353216 -> 1
    [] bits = 1073741824 -> 2

\* CosineSimilarity(a, b): the score is kept exact as the triple
\* (dotProduct, magA, magB); zero is true when the code returns 0 early.
RECURSIVE SumProd(_, _, _)
SumProd(a, b, i) ==
  IF i = 0 THEN 0
  ELSE FloatValue(a[i]) * FloatValue(b[i]) + SumProd(a, b, i - 1)

\* The score of the early returns.
ZeroScore == [zero |-> TRUE, dot |-> 0, magA |-> 1, magB |-> 1]

\* A variant without the return on a zero magnitude: the quotient is kept
\* as the triple, its divisor 0.
CosineSimilarityUnchecked(a, b) ==
  IF Len(a) # Len(b) \/ Len(a) = 0
  THEN [zero |-> TRUE, dot |-> 0, magA |-> 1, magB |-> 1]
  ELSE [zero |-> FALSE, dot |-> SumProd(a, b, Len(a)),
        magA |-> SumProd(a, a, Len(a)), magB |-> SumProd(b, b, Len(b))]

\* A variant that divides by the magnitude of the first vector alone (the
\* projection of b on a).
CosineSimilarityProjection(a, b) ==
  IF Len(a) # Len(b) \/ Len(a) = 0
  THEN [zero |-> TRUE, dot |-> 0, magA |-> 1, magB |-> 1]
  ELSE LET dotProduct == SumProd(a, b, Len(a))
           magA == SumProd(a, a, Len(a))
           magB == SumProd(b, b, Len(b))
       IN IF magA = 0 \/ magB = 0
          THEN [zero |-> TRUE, dot |-> 0, magA |-> 1, magB |-> 1]
          ELSE [zero |-> FALSE, dot |-> dotProduct, magA |-> magA, magB |-> magA]

CosineSimilarity(a, b) ==
  IF Len(a) # Len(b) \/ Len(a) = 0
  THEN [zero |-> TRUE, dot |-> 0, magA |-> 1, magB |-> 1]
  ELSE LET dotProduct == SumProd(a, b, Len(a))
           magA == SumProd(a, a, Len(a))
           magB == SumProd(b, b, Len(b))
       IN IF magA = 0 \/ magB = 0
          THEN [zero |-> TRUE, dot |-> 0, magA |-> 1, magB |-> 1]
          ELSE [zero |-> FALSE, dot |-> dotProduct, magA |-> magA, magB |-> magB]

\* s > t for two scores dot / sqrt(magA * magB); the vectors of the model have
\* no negative component, so both sides are >= 0 and squares compare them.
ScoreGreater(s, t) ==
  s.dot * s.dot * t.magA * t.magB > t.dot * t.dot * s.magA * s.magB

\* ---------------------------------------------------------- extractor
\* The site configuration.  A selector is TRUE when it is set (non-empty).
siteCfg ==
  [Origin |-> TRUE, Description |-> TRUE, DescriptionIsNextRow |-> TRUE,
   StockButton |-> TRUE, StockComingSoon |-> TRUE,
   DisallowedKeywords |-> << <<"b", "l">> >>]

\* The rendered document is the sequence of sibling elements of the product
\* table.  An element: row (it matches ProductRow), text and href of its first
\* Link element, the text of its first Price and Origin elements, the text of
\* its Description elements, and whether StockButton / StockComingSoon match
\* inside it.  A missing element reads as the empty string.
Element(row, text, href, price, origin, desc, stock, soon) ==
  [row |-> row, text |-> text, href |-> href, price |-> price,
   origin |-> origin, desc |-> desc, stock |-> stock, soon |-> soon]

\* models.CoffeeItem
CoffeeItem(url, name, price, score, origin, region, notes, processing, desc, stock) ==
  [URL |-> url, Name |-> name, Price |-> price, Score |-> score,
   Origin |-> origin, Region |-> region, TastingNotes |-> notes,
   Processing |-> processing, Description |-> desc, StockStatus |-> stock]

InStock == <<"I">>
ComingSoon == <<"C">>
OutOfStock == <<"O">>

\* A variant that compares with the keyword as configured.
HasDisallowedKeywordExact(name, cfg) ==
  \E k \in 1..Len(cfg.DisallowedKeywords) :
     Contains(ToLower(name), cfg.DisallowedKeywords[k])

\* The keyword filter of parseHTML: some disallowed keyword, lower-cased, is
\* contained in the lower-cased name.
HasDisallowedKeyword(name, cfg) ==
  \E k \in 1..Len(cfg.DisallowedKeywords) :
     Contains(ToLower(name), ToLower(cfg.DisallowedKeywords[k]))

\* A variant that looks for the coming-soon indicator first.
StockStatusOfSoonFirst(el, cfg) ==
  IF cfg.StockComingSoon /\ el.soon THEN ComingSoon
  ELSE IF cfg.StockButton /\ el.stock THEN InStock
  ELSE OutOfStock

\* The stock check of parseHTML.
StockStatusOf(el, cfg) ==
  IF cfg.StockButton /\ el.stock THEN InStock
  ELSE IF cfg.StockComingSoon /\ el.soon THEN ComingSoon
  ELSE OutOfStock

\* A variant that falls back to the row itself when the next sibling gives
\* no description.
DescriptionOfFallback(html, i, cfg) ==
  IF ~cfg.Description THEN EmptyString
  ELSE IF cfg.DescriptionIsNextRow
            /\ i + 1 <= Len(html)
            /\ TrimSpace(html[i + 1].desc) # EmptyString
       THEN TrimSpace(html[i + 1].desc)
       ELSE TrimSpace(html[i].desc)

\* The description of the row at index i: from the next sibling element, or
\* from the row itself.
DescriptionOf(html, i, cfg) ==
  IF ~cfg.Description THEN EmptyString
  ELSE IF cfg.DescriptionIsNextRow
       THEN IF i + 1 <= Len(html) THEN TrimSpace(html[i + 1].desc) ELSE EmptyString
       ELSE TrimSpace(html[i].desc)

\* The item the callback of Each builds for the row at index i.
RowItem(html, i, cfg) ==
  CoffeeItem(html[i].href, TrimSpace(html[i].text), parsePrice(html[i].price), Zero,
             IF cfg.Origin THEN TrimSpace(html[i].origin) ELSE EmptyString,
             EmptyString, EmptyString, EmptyString,
             DescriptionOf(html, i, cfg), StockStatusOf(html[i], cfg))

\* A variant that asks for a name only.
RowEmittedAnyUrl(html, i, cfg) ==
  /\ html[i].row
  /\ ~HasDisallowedKeyword(TrimSpace(html[i].text), cfg)
  /\ TrimSpace(html[i].text) # EmptyString

\* Whether the callback appends the item of the row at index i.
RowEmitted(html, i, cfg) ==
  /\ html[i].row
  /\ ~HasDisallowedKeyword(TrimSpace(html[i].text), cfg)
  /\ TrimSpace(html[i].text) # EmptyString
  /\ html[i].href # EmptyString

\* parseHTML: the items of the emitted rows, in document order.
RECURSIVE parseRows(_, _, _)
parseRows(html, i, cfg) ==
  IF i > Len(html) THEN << >>
  ELSE (IF RowEmitted(html, i, cfg) THEN << RowItem(html, i, cfg) >> ELSE << >>)
       \o parseRows(html, i + 1, cfg)

parseHTML(html, cfg) == parseRows(html, 1, cfg)

\* -------------------------------------------------------------- store
\* The coffee table is a function from the stored urls (UNIQUE NOT NULL) to
\* rows; search_history is a function from query_text (PRIMARY KEY) to rows.
Urls(items) == {items[i].URL : i \in 1..Len(items)}

ActiveUrls(c) == {u \in DOMAIN c : c[u].is_active = 1}

\* Variants of the statement that the properties below must tell apart from
\* it: one that matches no row, one that deletes the rows that were already
\* inactive, one that also drops the embedding of the rows it marks.
MarkAllAsInactiveSkipped(c) == c

MarkAllAsInactivePruning(c) ==
  [u \in ActiveUrls(c) |-> [c[u] EXCEPT !.is_active = 0]]

MarkAllAsInactiveResetting(c) ==
  [u \in DOMAIN c |->
     IF c[u].is_active = 1
     THEN [c[u] EXCEPT !.is_active = 0, !.description_embedding = NULL]
     ELSE c[u]]

\* UPDATE coffee SET is_active = 0 WHERE is_active = 1
MarkAllAsInactive(c) ==
  [u \in DOMAIN c |->
     IF c[u].is_active = 1 THEN [c[u] EXCEPT !.is_active = 0] ELSE c[u]]

\* The row the INSERT branch of upsertSQL creates at time t: the columns it
\* does not name take their defaults.
InsertedRow(c, item, t) ==
  [id |-> Cardinality(DOMAIN c) + 1,
   url |-> item.URL,
   name |-> item.Name,
   price |-> item.Price,
   score |-> NullFloat64(item.Score),
   origin |-> NullString(item.Origin),
   region |-> NullString(item.Region),
   tasting_notes |-> NullString(item.TastingNotes),
   processing |-> NullString(item.Processing),
   description |-> NullString(item.Description),
   stock_status |-> NullString(item.StockStatus),
   first_scraped_at |-> t,
   last_scraped_at |-> t,
   last_seen_at |-> t,
   is_active |-> 1,
   description_embedding |-> NULL]

\* Variants of the DO UPDATE branch: one without "is_active = 1", one that
\* also sets first_scraped_at, one that keeps a stored text where the item's
\* is empty (COALESCE).
UpdatedRowKeepsFlag(row, item, t) ==
  [row EXCEPT
     !.name = item.Name,
     !.price = item.Price,
     !.score = NullFloat64(item.Score),
     !.origin = NullString(item.Origin),
     !.region = NullString(item.Region),
     !.tasting_notes = NullString(item.TastingNotes),
     !.processing = NullString(item.Processing),
     !.description = NullString(item.Description),
     !.stock_status = NullString(item.StockStatus),
     !.last_scraped_at = t,
     !.last_seen_at = t]

UpdatedRowResetsFirst(row, item, t) ==
  [row EXCEPT
     !.name = item.Name,
     !.price = item.Price,
     !.score = NullFloat64(item.Score),
     !.origin = NullString(item.Origin),
     !.region = NullString(item.Region),
     !.tasting_notes = NullString(item.TastingNotes),
     !.processing = NullString(item.Processing),
     !.description = NullString(item.Description),
     !.stock_status = NullString(item.StockStatus),
     !.first_scraped_at = t,
     !.last_scraped_at = t,
     !.last_seen_at = t,
     !.is_active = 1]

UpdatedRowCoalesce(row, item, t) ==
  [row EXCEPT
     !.name = item.Name,
     !.price = item.Price,
     !.score = NullFloat64(item.Score),
     !.origin = IF item.Origin # EmptyString THEN Cell(item.Origin) ELSE row.origin,
     !.region = IF item.Region # EmptyString THEN Cell(item.Region) ELSE row.region,
     !.tasting_notes = NullString(item.TastingNotes),
     !.processing = NullString(item.Processing),
     !.description =
       IF item.Description # EmptyString THEN Cell(item.Description) ELSE row.description,
     !.stock_status = NullString(item.StockStatus),
     !.last_scraped_at = t,
     !.last_seen_at = t,
     !.is_active = 1]

\* A variant that drops the embedding when the description it was computed
\* from changes.
UpdatedRowInvalidating(row, item, t) ==
  [row EXCEPT
     !.name = item.Name,
     !.price = item.Price,
     !.score = NullFloat64(item.Score),
     !.origin = NullString(item.Origin),
     !.region = NullString(item.Region),
     !.tasting_notes = NullString(item.TastingNotes),
     !.processing = NullString(item.Processing),
     !.description = NullString(item.Description),
     !.stock_status = NullString(item.StockStatus),
     !.last_scraped_at = t,
     !.last_seen_at = t,
     !.is_active = 1,
     !.description_embedding =
       IF NullString(item.Description) = row.description
       THEN row.description_embedding ELSE NULL]

\* The row the ON CONFLICT(url) DO UPDATE branch leaves at time t.
UpdatedRow(row, item, t) ==
  [row EXCEPT
     !.name = item.Name,
     !.price = item.Price,
     !.score = NullFloat64(item.Score),
     !.origin = NullString(item.Origin),
     !.region = NullString(item.Region),
     !.tasting_notes = NullString(item.TastingNotes),
     !.processing = NullString(item.Processing),
     !.description = NullString(item.Description),
     !.stock_status = NullString(item.StockStatus),
     !.last_scraped_at = t,
     !.last_seen_at = t,
     !.is_active = 1]

\* One execution of upsertSQL at time t.
Upsert(c, item, t) ==
  IF item.URL \in DOMAIN c
  THEN [c EXCEPT ![item.URL] = UpdatedRow(c[item.URL], item, t)]
  ELSE [u \in DOMAIN c \cup {item.URL} |->
          IF u = item.URL THEN InsertedRow(c, item, t) ELSE c[u]]

\* The table inside the transaction after the first n statements.
RECURSIVE UpsertFirst(_, _, _, _)
UpsertFirst(c, items, t, n) ==
  IF n = 0 THEN c
  ELSE Upsert(UpsertFirst(c, items, t, n - 1), items[n], t)

\* Where SaveData fails: nowhere ("none"), in BeginTx ("begin"), in
\* PrepareContext ("prepare"), in ExecContext of the item at index at ("exec"),
\* or in Commit ("commit").  done is the number of statements executed before.
Failure(stage, done) == [stage |-> stage, done |-> done]

Failures(items) ==
  {Failure("none", Len(items)), Failure("begin", 0), Failure("prepare", 0),
   Failure("commit", Len(items))}
  \cup {Failure("exec", k - 1) : k \in 1..Len(items)}

\* A variant without the rollback: the statements executed before the failure
\* stay.
RolledBackPartial(c, items, t, fail) == UpsertFirst(c, items, t, fail.done)

\* What the database holds after a transaction that failed: tx.Rollback() on a
\* Prepare or Exec error, nothing committed on a Commit error.
RolledBack(c, items, t, fail) == c

\* A variant of the count of one statement that counts the rows created.
RowsAffectedInserted(c, item) == IF item.URL \in DOMAIN c THEN 0 ELSE 1

\* res.RowsAffected() of one execution of upsertSQL on the table c: the
\* statement changes one row, by its INSERT or by its DO UPDATE branch.
RowsAffected(c, item) == 1

\* totalAffected after the first n statements.
RECURSIVE TotalAffected(_, _, _, _)
TotalAffected(c, items, t, n) ==
  IF n = 0 THEN 0
  ELSE TotalAffected(c, items, t, n - 1)
       + RowsAffected(UpsertFirst(c, items, t, n - 1), items[n])

\* SaveData(db, items): [coffee, count, err].  t is CURRENT_TIMESTAMP.
SaveData(c, items, t, fail) ==
  IF fail.stage = "none"
  THEN [coffee |-> UpsertFirst(c, items, t, Len(items)),
        count |-> TotalAffected(c, items, t, Len(items)), err |-> FALSE]
  ELSE [coffee |-> RolledBack(c, items, t, fail), count |-> 0, err |-> TRUE]

\* The urls in the order of ORDER BY id DESC.
RECURSIVE ByIdDesc(_, _)
ByIdDesc(c, urls) ==
  IF urls = {} THEN << >>
  ELSE LET top == CHOOSE u \in urls : \A v \in urls : c[v].id <= c[u].id
       IN << top >> \o ByIdDesc(c, urls \ {top})

\* rows.Scan of a column into a Go string fails on NULL.
ScansAsString(cell) == ~IsNull(cell)

\* GetActiveCoffees: the rows of WHERE is_active = 1 whose Scan succeeds, as
\* items with name, url, origin, price and stock_status filled in.
ListedUrls(c) ==
  {u \in ActiveUrls(c) : ScansAsString(c[u].origin) /\ ScansAsString(c[u].stock_status)}

ListedItem(row) ==
  CoffeeItem(row.url, row.name, row.price, Zero, ValueOf(row.origin), EmptyString,
             EmptyString, EmptyString, EmptyString, ValueOf(row.stock_status))

GetActiveCoffees(c) ==
  LET order == ByIdDesc(c, ListedUrls(c))
  IN [i \in 1..Len(order) |-> ListedItem(c[order[i]])]

\* fmt.Sprintf("Coffee Name: %s\nDescription: %s", name, desc)
TextToEmbed(name, desc) == <<"N", ":">> \o name \o <<"D", ":">> \o desc

\* GetUnembeddedCoffees: the map url -> text of the rows of WHERE is_active = 1
\* AND description_embedding IS NULL whose Scan succeeds.
UnembeddedUrls(c) ==
  {u \in ActiveUrls(c) :
     IsNull(c[u].description_embedding) /\ ScansAsString(c[u].description)}

GetUnembeddedCoffees(c) ==
  [u \in UnembeddedUrls(c) |-> TextToEmbed(c[u].name, ValueOf(c[u].description))]

\* A variant without the WHERE clause.
UpdateEmbeddingAll(c, url, embedding) ==
  [u \in DOMAIN c |-> [c[u] EXCEPT !.description_embedding = Cell(embedding)]]

\* UPDATE coffee SET description_embedding = ? WHERE url = ?
UpdateEmbedding(c, url, embedding) ==
  [u \in DOMAIN c |->
     IF u = url THEN [c[u] EXCEPT !.description_embedding = Cell(embedding)] ELSE c[u]]

\* GetCoffeeVectors: the rows of WHERE is_active = 1 AND description_embedding
\* IS NOT NULL whose Scan succeeds.
VectorUrls(c) ==
  {u \in ActiveUrls(c) :
     /\ ~IsNull(c[u].description_embedding)
     /\ ScansAsString(c[u].origin)
     /\ ScansAsString(c[u].description)}

CoffeeVector(row) ==
  [URL |-> row.url, Name |-> row.name, Origin |-> ValueOf(row.origin),
   Description |-> ValueOf(row.description),
   Vector |-> ValueOf(row.description_embedding)]

GetCoffeeVectors(c) == {CoffeeVector(c[u]) : u \in VectorUrls(c)}

\* A variant that finds no row.
GetCachedQueryMiss(h, text) == [found |-> FALSE, blob |-> << >>]

\* GetCachedQuery: [found, blob]; sql.ErrNoRows when there is no such row.
GetCachedQuery(h, text) ==
  IF text \in DOMAIN h THEN [found |-> TRUE, blob |-> h[text].embedding]
  ELSE [found |-> FALSE, blob |-> << >>]

\* A variant with INSERT OR REPLACE.
SaveCachedQueryReplacing(h, text, blob, t) ==
  [q \in DOMAIN h \cup {text} |->
     IF q = text THEN [embedding |-> blob, created_at |-> t] ELSE h[q]]

\* INSERT OR IGNORE INTO search_history (query_text, embedding) at time t.
SaveCachedQuery(h, text, blob, t) ==
  IF text \in DOMAIN h THEN h
  ELSE [q \in DOMAIN h \cup {text} |->
          IF q = text THEN [embedding |-> blob, created_at |-> t] ELSE h[q]]

\* DELETE FROM search_history WHERE query_text = ?
ClearSearchHistory(h, queryText) == [q \in DOMAIN h \ {queryText} |-> h[q]]

\* DELETE FROM search_history
ClearAllSearchHistory(h) == [q \in {} |-> h[q]]

\* ------------------------------------------------------------ scraper
\* What the browser does in one run.  launcher.Launch, stealth.Page and
\* page.HTML return errors; MustNavigate, MustWaitStable and
\* MustWaitElementsMoreThan panic on an error or when the 90 s page timeout
\* expires ("render_timeout").
FetchOutcomes == {"ok", "launch_err", "page_err", "render_timeout", "html_err"}

\* The outcomes in which the page was not fetched.
FetchFailures == FetchOutcomes \ {"ok"}

\* The deferred recover() of fetchHTML logs, closes the page and does not
\* panic again, so fetchHTML returns the zero values ("", nil).  closeOK is
\* FALSE when page.MustClose() itself panics inside the handler.
Recovered(closeOK) ==
  IF closeOK THEN [html |-> << >>, err |-> FALSE, panic |-> FALSE]
  ELSE [html |-> << >>, err |-> FALSE, panic |-> TRUE]

\* fetchHTML(browser, cfg): [html, err, panic]; document is what the site
\* serves.
fetchHTML(document, outcome, closeOK) ==
  CASE outcome = "page_err" -> [html |-> << >>, err |-> TRUE, panic |-> FALSE]
    [] outcome = "render_timeout" -> Recovered(closeOK)
    [] outcome = "html_err" -> [html |-> << >>, err |-> TRUE, panic |-> FALSE]
    [] OTHER -> [html |-> document, err |-> FALSE, panic |-> FALSE]

\* scraper.Run(cfg): [items, err, panic].  goquery parses any string, so
\* parseHTML returns no error.
Run(document, outcome, closeOK, cfg) ==
  IF outcome = "launch_err" THEN [items |-> << >>, err |-> TRUE, panic |-> FALSE]
  ELSE LET fetched == fetchHTML(document, outcome, closeOK)
       IN IF fetched.panic THEN [items |-> << >>, err |-> FALSE, panic |-> TRUE]
          ELSE IF fetched.err THEN [items |-> << >>, err |-> TRUE, panic |-> FALSE]
          ELSE [items |-> parseHTML(fetched.html, cfg), err |-> FALSE, panic |-> FALSE]

\* ----------------------------------------------------------- searcher
\* The number of results Perform keeps.
TopK == 5
\* The web search shows a result when its score is at least 0.2, in percent.
MinScorePercent == 20

\* Step 3 of Perform: one result per coffee whose vector decodes.
Scored(queryVector, coffees) ==
  {[Item |-> cv, Score |-> CosineSimilarity(queryVector, BytesToFloats(cv.Vector).floats)] :
     cv \in {x \in coffees : BytesToFloats(x.Vector).ok}}

\* sort.Slice with less(i, j) = Score[i] > Score[j] is not stable: any order
\* of the results in which no later result has a greater score.
RECURSIVE SortedOrders(_)
SortedOrders(results) ==
  IF results = {} THEN {<< >>}
  ELSE UNION {{<< r >> \o rest : rest \in SortedOrders(results \ {r})} :
                r \in {x \in results : \A y \in results : ~ScoreGreater(y.Score, x.Score)}}

\* A variant that keeps the last five.
TruncateTail(results) ==
  IF Len(results) > TopK THEN SubSeq(results, Len(results) - TopK + 1, Len(results))
  ELSE results

\* results[:5] when there are more than 5.
Truncate(results) ==
  IF Len(results) > TopK THEN SubSeq(results, 1, TopK) ELSE results

\* The outcomes Perform can return once the query vector is known.
Rankings(queryVector, coffees) ==
  {Truncate(order) : order \in SortedOrders(Scored(queryVector, coffees))}

\* --------------------------------------------------------- embeddings
\* What the embedding backend answers for a text: an error, a response
\* without an embedding, or the values of a vector.  An item text (it starts
\* with "Name: ") gets one vector, VecX when it holds "d1" and VecXY
\* otherwise; a query text may get either vector, and a different one each
\* time it is asked, since nothing in the code fixes the backend's answer.
VecX == << 1065353216, 0 >>
VecXY == << 1065353216, 1065353216 >>

ModelVectors(text) ==
  IF Head(text) # "N" THEN {VecX, VecXY}
  ELSE IF Contains(text, <<"d", "1">>) THEN {VecX} ELSE {VecXY}

BackendReplies(text) ==
  {[kind |-> "error", values |-> << >>], [kind |-> "empty", values |-> << >>]}
  \cup {[kind |-> "ok", values |-> v] : v \in ModelVectors(text)}

\* A variant without the check of res.Embedding: a reply without an embedding
\* counts as an empty vector.
EmbedStringLenient(reply) ==
  IF reply.kind = "error" THEN [blob |-> << >>, floats |-> << >>, err |-> TRUE]
  ELSE [blob |-> FloatsToBytes(reply.values), floats |-> reply.values, err |-> FALSE]

\* (*Client).EmbedString: [blob, floats, err].
EmbedString(reply) ==
  IF reply.kind # "ok" THEN [blob |-> << >>, floats |-> << >>, err |-> TRUE]
  ELSE [blob |-> FloatsToBytes(reply.values), floats |-> reply.values, err |-> FALSE]

\* ------------------------------------------------- the modelled world
U1 == <<"u", "1">>
U2 == <<"u", "2">>
U3 == <<"u", "3">>

RowA ==
  Element(TRUE, <<" ", "K", "e", " ">>, U1, <<"$", "2", ".", "5", "0">>, <<"K">>,
          EmptyString, TRUE, FALSE)
DescA ==
  Element(FALSE, EmptyString, EmptyString, EmptyString, EmptyString, <<"d", "1">>,
          FALSE, FALSE)
\* The same product later: renamed, free, no origin, no description.
RowA2 ==
  Element(TRUE, <<"K", "e", "2">>, U1, <<"F", "r", "e", "e">>, EmptyString,
          EmptyString, FALSE, TRUE)
RowB ==
  Element(TRUE, <<"F", "u">>, U2, <<"3">>, <<"A">>, EmptyString, FALSE, FALSE)
DescB ==
  Element(FALSE, EmptyString, EmptyString, EmptyString, EmptyString, <<" ", "d", "2">>,
          FALSE, FALSE)
RowBlend ==
  Element(TRUE, <<"A", " ", "B", "L", "e">>, U3, <<"9">>, <<"A">>, EmptyString,
          TRUE, FALSE)
RowNoUrl ==
  Element(TRUE, <<"X">>, EmptyString, <<"1">>, <<"A">>, EmptyString, TRUE, FALSE)

\* The documents the site serves.
Pages ==
  {<< RowA, DescA, RowB, DescB >>,
   << RowBlend, RowB, DescB, RowNoUrl >>,
   << RowA2 >>,
   << RowBlend, RowNoUrl >>}

\* The items of the direct SaveData calls: the two of TestDatabaseUPSERT (same
\* url, the second renamed and repriced), one with every column filled, one
\* with every column empty, and one of another url.
Item1 ==
  CoffeeItem(U1, <<"T">>, [m |-> 10, e |-> 0], Zero, EmptyString, EmptyString,
             EmptyString, EmptyString, EmptyString, EmptyString)
Item2 ==
  CoffeeItem(U1, <<"T", "2">>, [m |-> 125, e |-> 1], Zero, EmptyString, EmptyString,
             EmptyString, EmptyString, EmptyString, EmptyString)
ItemFull ==
  CoffeeItem(U1, <<"K">>, [m |-> 7, e |-> 0], [m |-> 87, e |-> 0], <<"E">>, <<"Y">>,
             <<"t">>, <<"w">>, <<"d", "1">>, InStock)
ItemEmpty ==
  CoffeeItem(U1, EmptyString, Zero, Zero, EmptyString, EmptyString, EmptyString,
             EmptyString, EmptyString, EmptyString)
ItemOther ==
  CoffeeItem(U2, <<"F">>, [m |-> 3, e |-> 0], [m |-> 90, e |-> 0], <<"A">>, <<"H">>,
             <<"c">>, <<"n">>, <<"d", "2">>, OutOfStock)
Drafts == {Item1, Item2, ItemFull, ItemEmpty, ItemOther}
Batches == {<< d >> : d \in Drafts} \cup {<< d, e >> : d \in Drafts, e \in Drafts}

\* The query texts of the searches, and the arguments of "search clear".
Queries == {<<"f", "u">>, <<"F", "u">>}
ClearArgs == {<<"f", "u">>, <<"F", "u">>, <<" ", "F", "u">>, <<"A", "L", "L">>}
All == <<"a", "l", "l">>

\* -------------------------------------------------------------- state
VARIABLES
  coffee,          \* the coffee table
  search_history,  \* the search_history table
  clock,           \* CURRENT_TIMESTAMP in seconds: every command and request
                   \* starts one second after the one before, so it counts them
  pc,              \* where the command-line process is: idle, scrape, save,
                   \* autoembed, embed
  items,           \* runScrape's items, between scraper.Run and SaveData
  targets,         \* embedder.Run's targets still to process
  report,          \* what the embed stage logged last: [cmd, kind, count],
                   \* and delay: what the loop did between the attempt it
                   \* made last and the one it makes next
  web,             \* the search request the web server is serving: [pc, query]
  response,        \* the response the web server sent in the last step, if any
  lastRun,         \* the scrape run in progress or last finished
  prevRun,         \* the scrape run before it, with the table it left
  swept,           \* the urls active after the last scrape run that completed
  lastCall,        \* the last direct call of a function: [op, items, url,
                   \* embedding, count, err, before, html, cfg, text, value],
                   \* before being the coffee table a db function found,
                   \* html and cfg the arguments of parseHTML, text the
                   \* argument of parsePrice and value its result, floats
                   \* and other the vectors given to the ai helpers, decoded
                   \* what BytesToFloats returned, score and back what
                   \* CosineSimilarity returned for (floats, other) and for
                   \* (other, floats)
  req              \* the searches in flight or last finished, one per slot:
                   \* [pc, path, query, hit, calls, reply, answer, vector,
                   \* saved, status, results]; reply is the kind of the
                   \* backend's reply, answer the vector in it, vector the
                   \* one the search ranked with

vars ==
  << coffee, search_history, clock, pc, items, targets, report, web, response,
     lastRun, prevRun, swept, lastCall, req >>

EmptyTable == [u \in {} |-> u]

NoRun == [kind |-> "none", stage |-> "none", fetch |-> "none", items |-> << >>, count |-> 0]
NoResponse ==
  [kind |-> "none", status |-> "none", seen |-> {}, results |-> << >>,
   shown |-> << >>, expected |-> {}]
NoCall ==
  [op |-> "none", items |-> << >>, url |-> EmptyString, embedding |-> << >>,
   count |-> 0, err |-> FALSE, before |-> EmptyTable,
   html |-> << >>, cfg |-> siteCfg, text |-> EmptyString, value |-> Zero,
   floats |-> << >>, other |-> << >>, decoded |-> [ok |-> TRUE, floats |-> << >>],
   score |-> ZeroScore, back |-> ZeroScore]

\* The searches that can run at the same time: the web server serves each
\* request in a goroutine of its own, and the search command is a process of
\* its own.
Slots == {1, 2}
SearchPaths == {"web", "cli"}
NoSearch ==
  [pc |-> "idle", path |-> "none", query |-> EmptyString, hit |-> FALSE, calls |-> 0,
   reply |-> "none", answer |-> NULL, vector |-> NULL, saved |-> "none",
   status |-> "none",
   results |-> << >>]

\* db.Connect on a new database file: createSchema leaves both tables empty.
Init ==
  /\ coffee = EmptyTable
  /\ search_history = EmptyTable
  /\ clock = 0
  /\ pc = "idle"
  /\ items = << >>
  /\ targets = EmptyTable
  /\ report = [cmd |-> "none", kind |-> "none", count |-> 0, delay |-> "none"]
  /\ web = [pc |-> "idle", query |-> EmptyString]
  /\ response = NoResponse
  /\ lastRun = NoRun
  /\ prevRun = [kind |-> "none", items |-> << >>, coffee |-> EmptyTable]
  /\ swept = {}
  /\ lastCall = NoCall
  /\ req = [s \in Slots |-> NoSearch]

\* ------------------------------------------------- the scrape command
\* runScrape up to step 3: MarkAllAsInactive commits on its own.  markOK is
\* FALSE when the statement fails (log.Fatalf).
ScrapeMarkInactive ==
  /\ pc = "idle"
  /\ clock < MaxOps
  /\ clock' = clock + 1
  /\ prevRun' = [kind |-> lastRun.kind, items |-> lastRun.items, coffee |-> coffee]
  /\ \E markOK \in BOOLEAN :
       IF markOK
       THEN /\ coffee' = MarkAllAsInactive(coffee)
            /\ pc' = "scrape"
            /\ lastRun' = [NoRun EXCEPT !.kind = "running", !.stage = "mark"]
       ELSE /\ coffee' = coffee
            /\ pc' = "idle"
            /\ lastRun' = [NoRun EXCEPT !.kind = "fatal", !.stage = "mark"]
  /\ response' = NoResponse
  /\ UNCHANGED << search_history, items, targets, report, web,
                  swept, lastCall, req >>

\* runScrape step 4: scraper.Run, then the exit on no items.
ScrapeRun ==
  /\ pc = "scrape"
  /\ \E document \in Pages, outcome \in FetchOutcomes, closeOK \in BOOLEAN :
       LET r == Run(document, outcome, closeOK, siteCfg)
       IN IF r.panic
          THEN /\ lastRun' = [lastRun EXCEPT !.kind = "crash", !.stage = "scrape",
                                             !.fetch = outcome]
               /\ pc' = "idle"
               /\ UNCHANGED << items, swept >>
          ELSE IF r.err
          THEN /\ lastRun' = [lastRun EXCEPT !.kind = "fatal", !.stage = "scrape",
                                             !.fetch = outcome]
               /\ pc' = "idle"
               /\ UNCHANGED << items, swept >>
          ELSE IF Len(r.items) = 0
          THEN /\ lastRun' = [lastRun EXCEPT !.kind = "no_items", !.stage = "scrape",
                                             !.fetch = outcome]
               /\ pc' = "idle"
               /\ swept' = ActiveUrls(coffee)
               /\ UNCHANGED items
          ELSE /\ lastRun' = [lastRun EXCEPT !.stage = "scrape", !.fetch = outcome]
               /\ pc' = "save"
               /\ items' = r.items
               /\ UNCHANGED swept
  /\ response' = NoResponse
  /\ UNCHANGED << coffee, search_history, clock, targets, report, web,
                  prevRun, lastCall, req >>

\* runScrape step 5: SaveData, one transaction.
ScrapeSave ==
  /\ pc = "save"
  /\ \E fail \in Failures(items) :
       LET r == SaveData(coffee, items, clock, fail)
       IN /\ coffee' = r.coffee
          /\ IF r.err
             THEN /\ lastRun' = [lastRun EXCEPT !.kind = "fatal", !.stage = "save",
                                                !.items = items, !.count = r.count]
                  /\ pc' = "idle"
                  /\ UNCHANGED swept
             ELSE /\ lastRun' = [lastRun EXCEPT !.kind = "success", !.stage = "save",
                                                !.items = items, !.count = r.count]
                  /\ pc' = "autoembed"
                  /\ swept' = ActiveUrls(r.coffee)
  /\ items' = << >>
  /\ response' = NoResponse
  /\ UNCHANGED << search_history, clock, targets, report, web, prevRun,
                  lastCall, req >>

\* ---------------------------------------------------- the embed stage
\* embedder.Run up to the loop: [pc, targets, report] after it, for the
\* command cmd.  queryOK is FALSE when GetUnembeddedCoffees fails.
EmbedderStart(c, cmd, queryOK) ==
  IF ~queryOK
  THEN [pc |-> "idle", targets |-> EmptyTable,
        report |-> [cmd |-> cmd, kind |-> "error", count |-> 0, delay |-> "none"]]
  ELSE IF DOMAIN GetUnembeddedCoffees(c) = {}
  THEN [pc |-> "idle", targets |-> EmptyTable,
        report |-> [cmd |-> cmd, kind |-> "nothing", count |-> 0, delay |-> "none"]]
  ELSE [pc |-> "embed", targets |-> GetUnembeddedCoffees(c),
        report |-> [cmd |-> cmd, kind |-> "running", count |-> 0, delay |-> "none"]]

\* A variant of step 6 that ends the command as runEmbed does, with
\* log.Fatalf, when the client or the embedder fails.
AutoEmbedFatal ==
  /\ pc = "autoembed"
  /\ \E clientOK \in BOOLEAN, queryOK \in BOOLEAN :
       IF ~clientOK
       THEN /\ pc' = "idle"
            /\ report' = [cmd |-> "scrape", kind |-> "no_client", count |-> 0, delay |-> "none"]
            /\ lastRun' = [lastRun EXCEPT !.kind = "fatal", !.stage = "embed"]
            /\ UNCHANGED targets
       ELSE LET e == EmbedderStart(coffee, "scrape", queryOK)
            IN /\ pc' = e.pc
               /\ targets' = e.targets
               /\ report' = e.report
               /\ lastRun' = IF e.report.kind = "error"
                             THEN [lastRun EXCEPT !.kind = "fatal", !.stage = "embed"]
                             ELSE lastRun
  /\ response' = NoResponse
  /\ UNCHANGED << coffee, search_history, clock, items, web,
                  prevRun, swept, lastCall, req >>

\* runScrape step 6: a failure of ai.NewClient or of embedder.Run is logged as
\* a warning and the command ends normally.
AutoEmbed ==
  /\ pc = "autoembed"
  /\ \E clientOK \in BOOLEAN, queryOK \in BOOLEAN :
       IF ~clientOK
       THEN /\ pc' = "idle"
            /\ report' = [cmd |-> "scrape", kind |-> "no_client", count |-> 0, delay |-> "none"]
            /\ UNCHANGED targets
       ELSE LET e == EmbedderStart(coffee, "scrape", queryOK)
            IN /\ pc' = e.pc
               /\ targets' = e.targets
               /\ report' = e.report
  /\ response' = NoResponse
  /\ UNCHANGED << coffee, search_history, clock, items, web, lastRun,
                  prevRun, swept, lastCall, req >>

\* runEmbed: the embed command; here the same failures are fatal.
EmbedCommand ==
  /\ pc = "idle"
  /\ clock < MaxOps
  /\ clock' = clock + 1
  /\ \E clientOK \in BOOLEAN, queryOK \in BOOLEAN :
       IF ~clientOK
       THEN /\ pc' = "idle"
            /\ report' = [cmd |-> "embed", kind |-> "no_client", count |-> 0, delay |-> "none"]
            /\ UNCHANGED targets
       ELSE LET e == EmbedderStart(coffee, "embed", queryOK)
            IN /\ pc' = e.pc
               /\ targets' = e.targets
               /\ report' = e.report
  /\ response' = NoResponse
  /\ UNCHANGED << coffee, search_history, items, web, lastRun,
                  prevRun, swept, lastCall, req >>

\* A variant that counts the items tried.
CountedTried(count, saved) == count + 1

\* count++ of embedder.Run: reached only when the embedding was saved.
Counted(count, saved) == IF saved THEN count + 1 ELSE count

\* What an iteration of the loop does before it goes on to the next target:
\* time.Sleep(1 * time.Second) after an EmbedString error and after count++,
\* nothing after an UpdateEmbedding error (a bare continue).
DelayAfter(embedErr, saveOK) ==
  IF embedErr THEN "slept" ELSE IF saveOK THEN "slept" ELSE "skipped"

\* One iteration of the loop of embedder.Run, over the targets in no fixed
\* order (a Go map): EmbedString, then UpdateEmbedding.  saveOK is FALSE when
\* the UPDATE fails.
EmbedNext ==
  /\ pc = "embed"
  /\ \E url \in DOMAIN targets, saveOK \in BOOLEAN :
     \E reply \in BackendReplies(targets[url]) :
       LET e == EmbedString(reply)
           saved == ~e.err /\ saveOK
           rest == [u \in DOMAIN targets \ {url} |-> targets[u]]
           count == Counted(report.count, saved)
       IN /\ coffee' = IF saved THEN UpdateEmbedding(coffee, url, e.blob) ELSE coffee
          /\ targets' = rest
          /\ IF DOMAIN rest = {}
             THEN /\ pc' = "idle"
                  /\ report' = [report EXCEPT !.kind = "done", !.count = count,
                                              !.delay = "none"]
             ELSE /\ pc' = "embed"
                  /\ report' = [report EXCEPT !.count = count,
                                              !.delay = DelayAfter(e.err, saveOK)]
  /\ response' = NoResponse
  /\ UNCHANGED << search_history, clock, items, web, lastRun, prevRun,
                  swept, lastCall, req >>

\* ------------------------------------------------------ the web server
\* The table as the last completed scrape run left its is_active column.
WithActive(c, active) ==
  [u \in DOMAIN c |-> [c[u] EXCEPT !.is_active = IF u \in active THEN 1 ELSE 0]]

\* res.Score >= 0.2
ShownScore(s) ==
  /\ ~s.zero
  /\ s.dot >= 0
  /\ 100 * 100 * s.dot * s.dot >= MinScorePercent * MinScorePercent * s.magA * s.magB

\* The handler's filter of low-scoring results, order kept.
Filtered(results) == SelectSeq(results, LAMBDA r : ShownScore(r.Score))

\* The handler of "/": GetActiveCoffees, one SELECT.  queryOK is FALSE when
\* the query fails (status 500).
WebList ==
  /\ clock < MaxOps
  /\ clock' = clock + 1
  /\ \E queryOK \in BOOLEAN :
       response' =
         IF queryOK
         THEN [kind |-> "list", status |-> "ok", seen |-> ListedUrls(coffee),
               results |-> GetActiveCoffees(coffee), shown |-> << >>,
               expected |-> ListedUrls(WithActive(coffee, swept))]
         ELSE [kind |-> "list", status |-> "error", seen |-> {}, results |-> << >>,
               shown |-> << >>, expected |-> {}]
  /\ UNCHANGED << coffee, search_history, pc, items, targets, report, web,
                  lastRun, prevRun, swept, lastCall, req >>

\* Steps 2 to 4 of Perform for a known query vector: the response of the
\* handler of "/search" for the order the sort left.
SearchResponse(c, active, ranking) ==
  [kind |-> "search", status |-> "ok", seen |-> VectorUrls(c),
   results |-> [i \in 1..Len(ranking) |->
                  [URL |-> ranking[i].Item.URL, Score |-> ranking[i].Score]],
   shown |-> [i \in 1..Len(Filtered(ranking)) |-> Filtered(ranking)[i].Item.URL],
   expected |-> VectorUrls(WithActive(c, active))]

SearchFailed ==
  [kind |-> "search", status |-> "error", seen |-> {}, results |-> << >>,
   shown |-> << >>, expected |-> {}]

\* The handler of "/search" up to the cache lookup of getQueryVector.  On a
\* hit Perform decodes the blob, loads the vectors and ranks; on a miss it
\* goes on to the backend.  coffeesOK is FALSE when GetCoffeeVectors fails.
WebSearch ==
  /\ web.pc = "idle"
  /\ clock < MaxOps
  /\ clock' = clock + 1
  /\ \E query \in Queries, coffeesOK \in BOOLEAN :
       LET cached == GetCachedQuery(search_history, query)
           decoded == BytesToFloats(cached.blob)
       IN IF ~cached.found
          THEN /\ web' = [pc |-> "miss", query |-> query]
               /\ response' = NoResponse
          ELSE /\ web' = web
               /\ IF decoded.ok /\ coffeesOK
                  THEN \E ranking \in Rankings(decoded.floats, GetCoffeeVectors(coffee)) :
                          response' = SearchResponse(coffee, swept, ranking)
                  ELSE response' = SearchFailed
  /\ UNCHANGED << coffee, search_history, pc, items, targets, report,
                  lastRun, prevRun, swept, lastCall, req >>

\* The rest of a search that missed the cache: EmbedString, SaveCachedQuery
\* (a failure is logged and ignored), GetCoffeeVectors, rank.
WebSearchMiss ==
  /\ web.pc = "miss"
  /\ web' = [pc |-> "idle", query |-> EmptyString]
  /\ \E reply \in BackendReplies(web.query), saveOK \in BOOLEAN, coffeesOK \in BOOLEAN :
       LET e == EmbedString(reply)
       IN IF e.err
          THEN /\ response' = SearchFailed
               /\ UNCHANGED search_history
          ELSE /\ search_history' =
                    IF saveOK
                    THEN SaveCachedQuery(search_history, web.query, e.blob, clock)
                    ELSE search_history
               /\ IF coffeesOK
                  THEN \E ranking \in Rankings(e.floats, GetCoffeeVectors(coffee)) :
                          response' = SearchResponse(coffee, swept, ranking)
                  ELSE response' = SearchFailed
  /\ UNCHANGED << coffee, clock, pc, items, targets, report, lastRun, prevRun,
                  swept, lastCall, req >>

\* ------------------------------------------------- the clear command
\* handleSearch, command "clear": the target is trimmed and lower-cased;
\* "all" wipes the table.
ClearHistoryOf(arg) ==
  /\ clock < MaxOps
  /\ clock' = clock + 1
  /\ LET target == ToLower(TrimSpace(arg))
     IN search_history' =
          IF target = All THEN ClearAllSearchHistory(search_history)
          ELSE ClearSearchHistory(search_history, target)
  /\ response' = NoResponse
  /\ UNCHANGED << coffee, pc, items, targets, report, web,
                  lastRun, prevRun, swept, lastCall, req >>

ClearHistory == \E arg \in ClearArgs : ClearHistoryOf(arg)

\* ------------------------------------------------------ specification
Next ==
  \/ ScrapeMarkInactive
  \/ ScrapeRun
  \/ ScrapeSave
  \/ AutoEmbed
  \/ EmbedCommand
  \/ EmbedNext
  \/ WebList
  \/ WebSearch
  \/ WebSearchMiss
  \/ ClearHistory

Spec == Init /\ [][Next]_vars

\* The command-line process alone: scrape and embed commands one after another.
NextIngest ==
  \/ ScrapeMarkInactive
  \/ ScrapeRun
  \/ ScrapeSave
  \/ AutoEmbed
  \/ EmbedCommand
  \/ EmbedNext

SpecIngest == Init /\ [][NextIngest]_vars

\* ------------------------------------------ the db package called directly
\* The functions of the db package called one after another on one database,
\* as TestDatabaseUPSERT calls saveData.
DbSaveData ==
  /\ clock < MaxOps
  /\ clock' = clock + 1
  /\ \E batch \in Batches :
       \E fail \in Failures(batch) :
          LET r == SaveData(coffee, batch, clock + 1, fail) IN
            /\ coffee' = r.coffee
            /\ lastCall' = [NoCall EXCEPT !.op = "SaveData", !.items = batch,
                                          !.count = r.count, !.err = r.err,
                                          !.before = coffee]
  /\ UNCHANGED << search_history, pc, items, targets, report, web, response,
                  lastRun, prevRun, swept, req >>

DbMarkAllAsInactive ==
  /\ clock < MaxOps
  /\ clock' = clock + 1
  /\ \E execOK \in BOOLEAN :
       /\ coffee' = IF execOK THEN MarkAllAsInactive(coffee) ELSE coffee
       /\ lastCall' = [NoCall EXCEPT !.op = "MarkAllAsInactive", !.err = ~execOK,
                                     !.before = coffee]
  /\ UNCHANGED << search_history, pc, items, targets, report, web, response,
                  lastRun, prevRun, swept, req >>

DbUpdateEmbedding ==
  /\ clock < MaxOps
  /\ clock' = clock + 1
  /\ \E url \in {U1, U2, U3}, vector \in {VecX, VecXY}, execOK \in BOOLEAN :
       /\ coffee' = IF execOK
                    THEN UpdateEmbedding(coffee, url, FloatsToBytes(vector))
                    ELSE coffee
       /\ lastCall' = [NoCall EXCEPT !.op = "UpdateEmbedding", !.url = url,
                                     !.embedding = FloatsToBytes(vector),
                                     !.err = ~execOK, !.before = coffee]
  /\ UNCHANGED << search_history, pc, items, targets, report, web, response,
                  lastRun, prevRun, swept, req >>

NextStore ==
  \/ DbSaveData
  \/ DbMarkAllAsInactive
  \/ DbUpdateEmbedding

SpecStore == Init /\ [][NextStore]_vars

\* ------------------------------------------- searches side by side
InFlight(s) == req[s].pc \in {"miss", "waiting"}

\* The urls a search shows for the order the sort left: the web handler
\* drops the results under the threshold, the search command prints the
\* first five as they are.
ShownUrls(path, ranking) ==
  IF path = "web"
  THEN [i \in 1..Len(Filtered(ranking)) |-> Filtered(ranking)[i].Item.URL]
  ELSE [i \in 1..Len(ranking) |-> ranking[i].Item.URL]

\* The search of a slot once it has ended with the error why.
Aborted(r, why) == [r EXCEPT !.pc = "done", !.status = why, !.results = << >>]

\* A variant that reads the entry back after the insert.
ResolvedVectorCached(h, text, e) ==
  IF text \in DOMAIN h THEN BytesToFloats(h[text].embedding).floats ELSE e.floats

\* The vector getQueryVector and performSearch go on with after a miss: the
\* floats EmbedString returned, whatever the insert did.
ResolvedVector(h, text, e) == e.floats

\* The cache lookup of a search.  The web path (getQueryVector) takes any row
\* as a hit and fails when the blob does not decode; the command (tryCache)
\* takes a blob that does not decode as a miss.
CacheLookup(h, path, text) ==
  LET cached == GetCachedQuery(h, text)
      decoded == BytesToFloats(cached.blob)
  IN [hit |-> IF path = "web" THEN cached.found ELSE cached.found /\ decoded.ok,
      ok |-> decoded.ok, floats |-> decoded.floats]

\* A search begins in the lowest free slot: the handler of "/search", or
\* handleSearch with a query, up to the cache lookup; on a hit it ranks at
\* once.  coffeesOK is FALSE when GetCoffeeVectors fails.
SearchStart(s) ==
  /\ ~InFlight(s)
  /\ \A k \in Slots : k < s => InFlight(k)
  /\ clock < MaxOps
  /\ clock' = clock + 1
  /\ \E path \in SearchPaths, query \in Queries, coffeesOK \in BOOLEAN :
       LET look == CacheLookup(search_history, path, query)
           r == [NoSearch EXCEPT !.path = path, !.query = query]
       IN IF ~look.hit
          THEN req' = [req EXCEPT ![s] = [r EXCEPT !.pc = "miss"]]
          ELSE IF look.ok /\ coffeesOK
          THEN \E ranking \in Rankings(look.floats, GetCoffeeVectors(coffee)) :
                  req' = [req EXCEPT ![s] =
                            [r EXCEPT !.pc = "done", !.hit = TRUE, !.status = "ok",
                                      !.vector = Cell(look.floats),
                                      !.results = ShownUrls(path, ranking)]]
          ELSE req' = [req EXCEPT ![s] =
                         Aborted([r EXCEPT !.hit = TRUE],
                                 IF look.ok THEN "coffees_err" ELSE "decode_err")]
  /\ UNCHANGED << coffee, search_history, pc, items, targets, report, web,
                  response, lastRun, prevRun, swept, lastCall >>

\* After a miss the search sends the text to the embedding backend and
\* waits for the answer; the command first creates its client (clientOK is
\* FALSE when ai.NewClient fails), the server's client exists already.
SearchCall(s) ==
  /\ req[s].pc = "miss"
  /\ \E clientOK \in BOOLEAN :
       IF req[s].path = "cli" /\ ~clientOK
       THEN req' = [req EXCEPT ![s] = Aborted(req[s], "client_err")]
       ELSE /\ clientOK
            /\ req' = [req EXCEPT ![s].pc = "waiting", ![s].calls = req[s].calls + 1]
  /\ UNCHANGED << coffee, search_history, clock, pc, items, targets, report, web,
                  response, lastRun, prevRun, swept, lastCall >>

\* The backend answers: EmbedString returns, SaveCachedQuery runs (saveOK is
\* FALSE when it fails, which both paths ignore), then GetCoffeeVectors and
\* the ranking.
SearchResolve(s) ==
  /\ req[s].pc = "waiting"
  /\ \E reply \in BackendReplies(req[s].query), saveOK \in BOOLEAN, coffeesOK \in BOOLEAN :
       LET e == EmbedString(reply)
           r == req[s]
           saved == IF ~saveOK THEN "failed"
                    ELSE IF r.query \in DOMAIN search_history THEN "ignored"
                    ELSE "inserted"
           h == IF saveOK
                THEN SaveCachedQuery(search_history, r.query, e.blob, clock)
                ELSE search_history
           queryVector == ResolvedVector(h, r.query, e)
           got == [r EXCEPT !.reply = reply.kind, !.answer = Cell(e.floats),
                            !.vector = Cell(queryVector), !.saved = saved]
       IN IF e.err
          THEN /\ req' = [req EXCEPT ![s] =
                            Aborted([r EXCEPT !.reply = reply.kind], "embed_err")]
               /\ UNCHANGED search_history
          ELSE /\ search_history' = h
               /\ IF coffeesOK
                  THEN \E ranking \in Rankings(queryVector, GetCoffeeVectors(coffee)) :
                          req' = [req EXCEPT ![s] =
                                    [got EXCEPT !.pc = "done", !.status = "ok",
                                                !.results = ShownUrls(r.path, ranking)]]
                  ELSE req' = [req EXCEPT ![s] = Aborted(got, "coffees_err")]
  /\ UNCHANGED << coffee, clock, pc, items, targets, report, web, response,
                  lastRun, prevRun, swept, lastCall >>

NextSearch ==
  \/ \E s \in Slots : SearchStart(s)
  \/ \E s \in Slots : SearchCall(s)
  \/ \E s \in Slots : SearchResolve(s)
  \/ ClearHistory

\* The vector the embed stage stores for a record: the backend's answer for
\* the text GetUnembeddedCoffees builds.
EmbeddingOf(row) ==
  FloatsToBytes(CHOOSE v \in ModelVectors(TextToEmbed(row.name, ValueOf(row.description))) :
                  TRUE)

\* The table after SaveData of a batch on a new database.
Saved(batch) == SaveData(EmptyTable, batch, 0, Failure("none", Len(batch))).coffee

\* The coffee tables the searches run on: a new database, and the one a scrape
\* of two items leaves, with both embedded or with one.
SearchTables ==
  LET c == Saved(<< ItemFull, ItemOther >>)
      one == UpdateEmbedding(c, U1, EmbeddingOf(c[U1]))
  IN {EmptyTable, one, UpdateEmbedding(one, U2, EmbeddingOf(c[U2]))}

InitSearch ==
  /\ coffee \in SearchTables
  /\ search_history = EmptyTable
  /\ clock = 0
  /\ pc = "idle"
  /\ items = << >>
  /\ targets = EmptyTable
  /\ report = [cmd |-> "none", kind |-> "none", count |-> 0, delay |-> "none"]
  /\ web = [pc |-> "idle", query |-> EmptyString]
  /\ response = NoResponse
  /\ lastRun = NoRun
  /\ prevRun = [kind |-> "none", items |-> << >>, coffee |-> EmptyTable]
  /\ swept = {}
  /\ lastCall = NoCall
  /\ req = [s \in Slots |-> NoSearch]

SpecSearch == InitSearch /\ [][NextSearch]_vars

\* The searches with the steps of the program taken whenever they can be:
\* a search that missed sends its request.  Nothing makes the backend answer:
\* EmbedContent is called with context.Background() or the request's context,
\* without a deadline.
SpecSearchLive ==
  /\ InitSearch
  /\ [][NextSearch]_vars
  /\ \A s \in Slots : WF_vars(SearchCall(s))

\* ------------------------------------------- the extractor on its own
\* parseHTML and parsePrice called directly, as TestParseHTML and
\* TestParsePrice call them, on documents of up to three sibling elements
\* and on every combination of set and unset selectors.
PageUrls == << U1, U2, U3 >>

\* The elements a document can hold at a position whose link, if any, points
\* to url: a full row with its own description, an element that is no product
\* row and holds a description, a row named with a keyword in capitals and
\* with both stock indicators, a row without href, a row whose link text is
\* blank, a row with neither price nor origin nor description, and a row
\* named with a keyword in small letters.
ElementsFor(url) ==
  {Element(TRUE, <<" ", "K", "e", " ">>, url, <<"$", "2", ".", "5", "0">>, <<"K">>,
           <<"d", "1">>, TRUE, FALSE),
   Element(FALSE, EmptyString, EmptyString, EmptyString, EmptyString, <<" ", "d", "2">>,
           FALSE, FALSE),
   Element(TRUE, <<"A", " ", "B", "L", "e">>, url, <<"9">>, <<"A">>, EmptyString,
           TRUE, TRUE),
   Element(TRUE, <<"X">>, EmptyString, <<"1">>, <<"A">>, <<"d", "1">>, FALSE, TRUE),
   Element(TRUE, <<" ", " ">>, url, <<"1">>, <<"A">>, EmptyString, FALSE, FALSE),
   Element(TRUE, <<"F", "u">>, url, <<"F", "r", "e", "e">>, EmptyString, EmptyString,
           FALSE, TRUE),
   Element(TRUE, <<"a", "b", "l", "e">>, url, <<"3">>, EmptyString, <<" ", "d", "2">>,
           FALSE, FALSE)}

Documents ==
  {<< >>}
  \cup {<< a >> : a \in ElementsFor(PageUrls[1])}
  \cup {<< a, b >> : a \in ElementsFor(PageUrls[1]), b \in ElementsFor(PageUrls[2])}
  \cup {<< a, b, c >> : a \in ElementsFor(PageUrls[1]), b \in ElementsFor(PageUrls[2]),
                        c \in ElementsFor(PageUrls[3])}

\* cfg.DisallowedKeywords: none, one in small letters, two in capitals.
KeywordLists ==
  {<< >>, << <<"b", "l">> >>, << <<"F">>, <<"B", "L">> >>}

\* The site configurations: every selector set or unset.
Configs ==
  {[Origin |-> o, Description |-> d, DescriptionIsNextRow |-> n,
    StockButton |-> sb, StockComingSoon |-> sc, DisallowedKeywords |-> kws] :
     o \in BOOLEAN, d \in BOOLEAN, n \in BOOLEAN, sb \in BOOLEAN, sc \in BOOLEAN,
     kws \in KeywordLists}

\* The price texts of TestParsePrice and some more: plain, with currency
\* sign, with thousands separator, no digit, empty, only dots, two dots, a
\* dot first or last, a sign, an exponent letter.
PriceTexts ==
  {<<"3">>, <<"$", "2", ".", "5", "0">>, <<"1", ",", "2", "3", "4", ".", "5">>,
   <<"F", "r", "e", "e">>, EmptyString, <<".">>, <<".", ".">>,
   <<"1", ".", "2", ".", "3">>, <<".", "5">>, <<"3", ".">>, <<"-", "5">>,
   <<"1", "e", "3">>, <<"0", ".", "0">>, <<" ", "1", "0", " ", "k", "r">>}

\* The arguments of the call to come.
ExtractInputs ==
  {[NoCall EXCEPT !.op = "parseHTML_args", !.html = html, !.cfg = cfg] :
     html \in Documents, cfg \in Configs}
  \cup {[NoCall EXCEPT !.op = "parsePrice_args", !.text = text] : text \in PriceTexts}

InitExtract ==
  /\ coffee = EmptyTable
  /\ search_history = EmptyTable
  /\ clock = 0
  /\ pc = "idle"
  /\ items = << >>
  /\ targets = EmptyTable
  /\ report = [cmd |-> "none", kind |-> "none", count |-> 0, delay |-> "none"]
  /\ web = [pc |-> "idle", query |-> EmptyString]
  /\ response = NoResponse
  /\ lastRun = NoRun
  /\ prevRun = [kind |-> "none", items |-> << >>, coffee |-> EmptyTable]
  /\ swept = {}
  /\ lastCall \in ExtractInputs
  /\ req = [s \in Slots |-> NoSearch]

\* items, err := parseHTML(html, cfg); err is nil for every string.
ParseHTMLCall ==
  /\ lastCall.op = "parseHTML_args"
  /\ lastCall' = [lastCall EXCEPT !.op = "parseHTML",
                                  !.items = parseHTML(lastCall.html, lastCall.cfg)]
  /\ UNCHANGED << coffee, search_history, clock, pc, items, targets, report, web,
                  response, lastRun, prevRun, swept, req >>

\* price := parsePrice(priceStr)
ParsePriceCall ==
  /\ lastCall.op = "parsePrice_args"
  /\ lastCall' = [lastCall EXCEPT !.op = "parsePrice",
                                  !.value = parsePrice(lastCall.text)]
  /\ UNCHANGED << coffee, search_history, clock, pc, items, targets, report, web,
                  response, lastRun, prevRun, swept, req >>

NextExtract ==
  \/ ParseHTMLCall
  \/ ParsePriceCall

SpecExtract == InitExtract /\ [][NextExtract]_vars

\* ------------------------------------------- searcher.Perform on its own
\* Steps 2 to 4 of Perform called with a known query vector on stored
\* tables of up to eight embedded records, more than Perform keeps.
VecY == << 0, 1065353216 >>
Vec2XY == << 1073741824, 1065353216 >>
VecX2Y == << 1065353216, 1073741824 >>
Vec2X == << 1073741824, 0 >>

\* The url and the stored blob of each record: six vectors of the query's
\* dimension (the last a multiple of the first), one blob that is no
\* whole number of floats, one vector of another dimension.
RankRows ==
  << [url |-> <<"r", "1">>, blob |-> FloatsToBytes(VecX)],
     [url |-> <<"r", "2">>, blob |-> FloatsToBytes(VecXY)],
     [url |-> <<"r", "3">>, blob |-> FloatsToBytes(VecY)],
     [url |-> <<"r", "4">>, blob |-> FloatsToBytes(Vec2XY)],
     [url |-> <<"r", "5">>, blob |-> FloatsToBytes(VecX2Y)],
     [url |-> <<"r", "6">>, blob |-> FloatsToBytes(Vec2X)],
     [url |-> <<"r", "7">>, blob |-> << 0, 0, 128 >>],
     [url |-> <<"r", "8">>, blob |-> FloatsToBytes(<< 1065353216 >>)] >>

QueryVectors == {VecX, VecXY, VecY}

\* The table after the records of the indexes in picked were scraped in one
\* batch, in index order, and given their embeddings.
RECURSIVE RankTable(_, _)
RankTable(picked, k) ==
  IF k = 0 THEN EmptyTable
  ELSE LET c == RankTable(picked, k - 1)
           item == [ItemOther EXCEPT !.URL = RankRows[k].url]
       IN IF k \in picked
          THEN UpdateEmbedding(Upsert(c, item, 0), item.URL, RankRows[k].blob)
          ELSE c

RankTables == {RankTable(picked, Len(RankRows)) : picked \in SUBSET DOMAIN RankRows}

InitRank ==
  /\ coffee \in RankTables
  /\ search_history = EmptyTable
  /\ clock = 0
  /\ pc = "idle"
  /\ items = << >>
  /\ targets = EmptyTable
  /\ report = [cmd |-> "none", kind |-> "none", count |-> 0, delay |-> "none"]
  /\ web = [pc |-> "idle", query |-> EmptyString]
  /\ response = NoResponse
  /\ lastRun = NoRun
  /\ prevRun = [kind |-> "none", items |-> << >>, coffee |-> EmptyTable]
  /\ swept = {}
  /\ lastCall = NoCall
  /\ req = [s \in Slots |-> NoSearch]

\* Perform from step 2 on: GetCoffeeVectors (coffeesOK is FALSE when it
\* fails), score, sort, keep the first five.
PerformCall ==
  /\ clock < MaxOps
  /\ clock' = clock + 1
  /\ \E queryVector \in QueryVectors, coffeesOK \in BOOLEAN :
       IF coffeesOK
       THEN \E ranking \in Rankings(queryVector, GetCoffeeVectors(coffee)) :
               lastCall' = [NoCall EXCEPT !.op = "Perform", !.embedding = queryVector,
                                          !.items = ranking, !.before = coffee]
       ELSE lastCall' = [NoCall EXCEPT !.op = "Perform", !.embedding = queryVector,
                                       !.err = TRUE, !.before = coffee]
  /\ UNCHANGED << coffee, search_history, pc, items, targets, report, web, response,
                  lastRun, prevRun, swept, req >>

NextRank == PerformCall

SpecRank == InitRank /\ [][NextRank]_vars

\* ------------------------------------------- the ai helpers on their own
\* FloatsToBytes, BytesToFloats and CosineSimilarity called directly, and
\* Perform on tables that hold a blob which does not decode.
\* The float32 values: 0, the smallest and the largest subnormal, 1, 2, one
\* with four different bytes, +Inf, a signalling and a quiet NaN.
Float32Patterns ==
  {0, 1, 8388607, 1065353216, 1073741824, 16909060, 2139095040, 2139095041,
   2143289344}

VectorsOf(values) ==
  {<< >>}
  \cup {<< x >> : x \in values}
  \cup {<< x, y >> : x \in values, y \in values}
  \cup {<< x, y, z >> : x \in values, y \in values, z \in values}

\* The blobs given to BytesToFloats directly: up to five bytes.
ByteValues == {0, 63, 127}
Blobs ==
  UNION {[1..n -> ByteValues] : n \in 0..(Len(PageUrls) + 2)}

\* The vectors given to CosineSimilarity: up to two components of 0, 1, 2.
CosineVectors ==
  {v \in VectorsOf({0, 1065353216, 1073741824}) : Len(v) < Len(PageUrls)}

\* The arguments of the call to come.
VectorInputs ==
  {[NoCall EXCEPT !.op = "FloatsToBytes_args", !.floats = v] :
     v \in VectorsOf(Float32Patterns)}
  \cup {[NoCall EXCEPT !.op = "BytesToFloats_args", !.embedding = b] : b \in Blobs}
  \cup {[NoCall EXCEPT !.op = "CosineSimilarity_args", !.floats = a, !.other = b] :
          a \in CosineVectors, b \in CosineVectors}

\* The tables Perform is called on here: records 1, 2 and 7 of RankRows,
\* the last with a blob of three bytes.
VectorTables ==
  {RankTable(picked, Len(RankRows)) : picked \in SUBSET {1, 2, 7}}

InitVector ==
  /\ \/ coffee = EmptyTable /\ lastCall \in VectorInputs
     \/ coffee \in VectorTables /\ lastCall = NoCall
  /\ search_history = EmptyTable
  /\ clock = 0
  /\ pc = "idle"
  /\ items = << >>
  /\ targets = EmptyTable
  /\ report = [cmd |-> "none", kind |-> "none", count |-> 0, delay |-> "none"]
  /\ web = [pc |-> "idle", query |-> EmptyString]
  /\ response = NoResponse
  /\ lastRun = NoRun
  /\ prevRun = [kind |-> "none", items |-> << >>, coffee |-> EmptyTable]
  /\ swept = {}
  /\ req = [s \in Slots |-> NoSearch]

\* blob, err := FloatsToBytes(floats); binary.Write of a []float32 into a
\* bytes.Buffer returns no error.
EncodeCall ==
  /\ lastCall.op = "FloatsToBytes_args"
  /\ lastCall' = [lastCall EXCEPT !.op = "FloatsToBytes",
                                  !.embedding = FloatsToBytes(lastCall.floats)]
  /\ UNCHANGED << coffee, search_history, clock, pc, items, targets, report, web,
                  response, lastRun, prevRun, swept, req >>

\* floats, err := BytesToFloats(blob), of a blob FloatsToBytes made or of
\* any other.
DecodeCall ==
  /\ lastCall.op \in {"FloatsToBytes", "BytesToFloats_args"}
  /\ LET d == BytesToFloats(lastCall.embedding)
     IN lastCall' = [lastCall EXCEPT !.op = "BytesToFloats", !.decoded = d,
                                     !.err = ~d.ok]
  /\ UNCHANGED << coffee, search_history, clock, pc, items, targets, report, web,
                  response, lastRun, prevRun, swept, req >>

\* CosineSimilarity(a, b) and CosineSimilarity(b, a)
CosineCall ==
  /\ lastCall.op = "CosineSimilarity_args"
  /\ lastCall' = [lastCall EXCEPT
                    !.op = "CosineSimilarity",
                    !.score = CosineSimilarity(lastCall.floats, lastCall.other),
                    !.back = CosineSimilarity(lastCall.other, lastCall.floats)]
  /\ UNCHANGED << coffee, search_history, clock, pc, items, targets, report, web,
                  response, lastRun, prevRun, swept, req >>

NextVector ==
  \/ EncodeCall
  \/ DecodeCall
  \/ CosineCall
  \/ PerformCall

SpecVector == InitVector /\ [][NextVector]_vars

\* -------------------------------------------------------- properties
\* The last scrape run went through SaveData's commit.
RunCompleted == lastRun.kind = "success"
\* The last scrape run ended in log.Fatalf or in a panic.
RunFailed == lastRun.kind \in {"fatal", "crash"}

\* C1: after a scrape run that completed (MarkAllAsInactive, then SaveData of
\* its non-empty batch), every url of the batch is stored, and a stored record
\* is active if and only if its url is in the batch.
C1_ActiveIffInBatch ==
  RunCompleted =>
    /\ Urls(lastRun.items) \subseteq DOMAIN coffee
    /\ \A u \in DOMAIN coffee : (coffee[u].is_active = 1) <=> (u \in Urls(lastRun.items))

\* A completed run that left one record active and another inactive.
C1_Witness ==
  /\ RunCompleted
  /\ \E u \in DOMAIN coffee : coffee[u].is_active = 1
  /\ \E u \in DOMAIN coffee : coffee[u].is_active = 0

\* C2: when a scrape run fails at the fetch, extract or upsert stage, every
\* record stored before the run has the is_active flag it had when the run
\* started.
C2_FailedRunKeepsFlags ==
  (RunFailed /\ lastRun.stage \in {"scrape", "save"}) =>
    \A u \in DOMAIN prevRun.coffee : coffee[u].is_active = prevRun.coffee[u].is_active

\* C3: a listing or a search that the web server answers while a scrape run
\* is under way sees the records that the last completed run left active (or
\* those the current run leaves active), never the table between the run's
\* mark-all-inactive and its upserts.
C3_ReaderSeesCompletedSweep ==
  response.status = "ok" => response.seen = response.expected

\* C4: when the render wait times out, or another step of the fetch fails, the
\* scrape run ends as failed, never as a run that found no items.
C4_FetchFailureIsFatal ==
  (lastRun.fetch \in FetchFailures /\ lastRun.kind # "running") => RunFailed

\* C5: a SaveData that fails returns count 0 and leaves every stored record
\* exactly as it was before the call.
C5_SaveDataAllOrNothing ==
  [][(pc = "save" /\ lastRun'.kind = "fatal") =>
       (coffee' = coffee /\ lastRun'.count = 0)]_vars

\* A failed SaveData of a batch of two, on a table that already held a record.
C5_Witness ==
  /\ lastRun.kind = "fatal"
  /\ lastRun.stage = "save"
  /\ Len(lastRun.items) >= 2
  /\ coffee # EmptyTable

\* C6: no step removes a stored record: every url stored before a step is
\* stored after it.
C6_NoRecordRemoved == [][DOMAIN coffee \subseteq DOMAIN coffee']_vars

\* A record that was embedded, then went inactive, and is still stored when
\* the search history has been written.
C6_Witness ==
  /\ \E u \in DOMAIN coffee :
       coffee[u].is_active = 0 /\ ~IsNull(coffee[u].description_embedding)
  /\ search_history # EmptyTable

\* C7: a record whose url was in the batch of the completed run N and is not in
\* the batch of the completed run N+1 is still stored after run N+1, inactive,
\* with every other column as it was when run N+1 started.
C7_SoftDelete ==
  (RunCompleted /\ prevRun.kind = "success") =>
    \A u \in Urls(prevRun.items) \ Urls(lastRun.items) :
       /\ u \in DOMAIN coffee
       /\ coffee[u] = [prevRun.coffee[u] EXCEPT !.is_active = 0]

\* Two completed runs, the second without a url of the first whose record has
\* an embedding.
C7_Witness ==
  /\ RunCompleted
  /\ prevRun.kind = "success"
  /\ \E u \in Urls(prevRun.items) \ Urls(lastRun.items) :
       u \in DOMAIN coffee /\ ~IsNull(coffee[u].description_embedding)

\* C8: a completed run whose batch is the batch of the completed run before it
\* leaves the stored urls and the active urls as that run left them.
C8_UpsertIdempotent ==
  (RunCompleted /\ prevRun.kind = "success" /\ lastRun.items = prevRun.items) =>
    /\ DOMAIN coffee = DOMAIN prevRun.coffee
    /\ ActiveUrls(coffee) = ActiveUrls(prevRun.coffee)

\* The same batch run twice, on a table that also holds an inactive record.
C8_Witness ==
  /\ RunCompleted
  /\ prevRun.kind = "success"
  /\ lastRun.items = prevRun.items
  /\ ActiveUrls(coffee) # {}
  /\ ActiveUrls(coffee) # DOMAIN coffee

\* C9: first_scraped_at is the time of the insert, no step changes it, and it
\* is never later than last_seen_at.
C9_FirstSeenFixed ==
  [][\A u \in DOMAIN coffee' :
       /\ coffee'[u].first_scraped_at <= coffee'[u].last_seen_at
       /\ IF u \in DOMAIN coffee
          THEN coffee'[u].first_scraped_at = coffee[u].first_scraped_at
          ELSE coffee'[u].first_scraped_at = clock]_vars

\* A record upserted again later than it was inserted, and then embedded.
C9_Witness ==
  \E u \in DOMAIN coffee :
     /\ coffee[u].first_scraped_at < coffee[u].last_seen_at
     /\ ~IsNull(coffee[u].description_embedding)

\* What a reader gets from a nullable column: the text, or the empty text for
\* NULL; the number, or zero for NULL.
TextOf(cell) == IF IsNull(cell) THEN EmptyString ELSE ValueOf(cell)
NumberOf(cell) == IF IsNull(cell) THEN Zero ELSE ValueOf(cell)

\* The item of a batch that decides the row of its url: the last one with it.
Decides(batch, i) == \A j \in (i + 1)..Len(batch) : batch[j].URL # batch[i].URL

SaveDataCommitted == lastCall.op = "SaveData" /\ ~lastCall.err

\* C10: after a SaveData that committed, the record of each url of the batch
\* holds the item's name, price, score, origin, region, tasting notes,
\* processing, description and stock status (an empty value of the item
\* replacing a stored one), is active, has last_scraped_at and last_seen_at at
\* the time of the call, and keeps its url; a record that existed keeps its id,
\* first_scraped_at and embedding, a new one has first_scraped_at at the time
\* of the call and no embedding; every other record is as it was.
C10_SaveDataUpserts ==
  SaveDataCommitted =>
    /\ DOMAIN coffee = DOMAIN lastCall.before \cup Urls(lastCall.items)
    /\ lastCall.count = Len(lastCall.items)
    /\ \A u \in DOMAIN lastCall.before \ Urls(lastCall.items) :
         coffee[u] = lastCall.before[u]
    /\ \A i \in 1..Len(lastCall.items) :
         Decides(lastCall.items, i) =>
           LET d == lastCall.items[i]
               row == coffee[d.URL]
           IN /\ row.url = d.URL
              /\ row.name = d.Name
              /\ row.price = d.Price
              /\ NumberOf(row.score) = d.Score
              /\ TextOf(row.origin) = d.Origin
              /\ TextOf(row.region) = d.Region
              /\ TextOf(row.tasting_notes) = d.TastingNotes
              /\ TextOf(row.processing) = d.Processing
              /\ TextOf(row.description) = d.Description
              /\ TextOf(row.stock_status) = d.StockStatus
              /\ row.is_active = 1
              /\ row.last_scraped_at = clock
              /\ row.last_seen_at = clock
              /\ IF d.URL \in DOMAIN lastCall.before
                 THEN /\ row.id = lastCall.before[d.URL].id
                      /\ row.first_scraped_at = lastCall.before[d.URL].first_scraped_at
                      /\ row.description_embedding =
                           lastCall.before[d.URL].description_embedding
                 ELSE /\ row.first_scraped_at = clock
                      /\ IsNull(row.description_embedding)

\* A committed SaveData that inserted a record and overwrote another, inactive
\* one: the origin it held became empty.
C10_Witness ==
  /\ SaveDataCommitted
  /\ Urls(lastCall.items) \ DOMAIN lastCall.before # {}
  /\ \E u \in Urls(lastCall.items) \cap DOMAIN lastCall.before :
       /\ lastCall.before[u].is_active = 0
       /\ ~IsNull(lastCall.before[u].origin)
       /\ IsNull(coffee[u].origin)

\* A search of slot s ends in this step with the backend's answer.
Resolves(s) ==
  req[s].pc = "waiting" /\ req'[s].pc = "done" /\ ~IsNull(req'[s].answer)

\* A search begins in slot s in this step.
Starts(s) == ~InFlight(s) /\ req'[s] # req[s]

\* The orders of urls a search by path can show when it ranks with vector v.
Showable(path, v) ==
  {ShownUrls(path, ranking) : ranking \in Rankings(v, GetCoffeeVectors(coffee))}

\* C11: every key of search_history is lower-cased and trimmed, whichever
\* search path wrote it.
C11_KeysNormalised ==
  \A q \in DOMAIN search_history : q = ToLower(TrimSpace(q))

C13_EntryNeverOverwritten ==
  [][\A q \in DOMAIN search_history \cap DOMAIN search_history' :
       search_history'[q] = search_history[q]]_vars

\* A search whose SaveCachedQuery found an entry for its text, written with
\* another vector than the one the search got.
C13_Witness ==
  \E s \in Slots :
     /\ req[s].saved = "ignored"
     /\ req[s].query \in DOMAIN search_history
     /\ search_history[req[s].query].embedding # FloatsToBytes(ValueOf(req[s].answer))

\* C14: a search that missed the cache and got the backend's answer ranks
\* with that answer; when another search has inserted the text meanwhile its
\* own insert changes nothing and it does not fail for that.
C14_LostInsertTolerated ==
  [][\A s \in Slots :
       Resolves(s) =>
         /\ req'[s].calls = 1
         /\ req'[s].vector = req'[s].answer
         /\ req'[s].status \in {"ok", "coffees_err"}
         /\ req'[s].status = "ok" =>
              req'[s].results \in Showable(req'[s].path, ValueOf(req'[s].answer))
         /\ req'[s].saved = "ignored" =>
              /\ req'[s].query \in DOMAIN search_history
              /\ search_history' = search_history
    ]_vars

\* Two searches for one text side by side: both called the backend, one
\* inserted, the other's insert was ignored, they got different vectors and
\* showed different orders, and the text has its entry.
C14_Witness ==
  /\ req[1].pc = "done" /\ req[2].pc = "done"
  /\ req[1].query = req[2].query
  /\ req[1].calls = 1 /\ req[2].calls = 1
  /\ {req[1].saved, req[2].saved} = {"inserted", "ignored"}
  /\ req[1].status = "ok" /\ req[2].status = "ok"
  /\ req[1].answer # req[2].answer
  /\ req[1].results # req[2].results
  /\ req[1].query \in DOMAIN search_history

\* C15: when the backend answers a search that missed the cache with an error
\* or without a vector, the search ends with an error and no results, and the
\* step writes no history entry and changes no item record.
C15_BackendFailureAborts ==
  [][\A s \in Slots :
       (req[s].pc = "waiting" /\ req'[s].reply \in {"error", "empty"}) =>
         /\ req'[s].pc = "done"
         /\ req'[s].status = "embed_err"
         /\ req'[s].results = << >>
         /\ IsNull(req'[s].vector)
         /\ search_history' = search_history
         /\ coffee' = coffee
    ]_vars

\* A search on a table with embedded records that ended with the backend's
\* failure, its text without an entry.
C15_Witness ==
  \E s \in Slots :
     /\ req[s].status = "embed_err"
     /\ req[s].reply \in {"error", "empty"}
     /\ req[s].query \notin DOMAIN search_history
     /\ GetCoffeeVectors(coffee) # {}

\* C16: a search that missed the cache ends, whatever the backend does.
C16_SearchTerminates ==
  \A s \in Slots : (req[s].pc = "miss") ~> (req[s].pc = "done")

\* C17: "search clear" with the text of an entry removes that entry and no
\* other, "search clear all" removes every entry, and neither changes an item
\* record.
C17_ClearRemovesEntry ==
  [][\A arg \in ClearArgs :
       ClearHistoryOf(arg) =>
         /\ coffee' = coffee
         /\ ToLower(arg) = All => search_history' = EmptyTable
         /\ arg \in DOMAIN search_history =>
              /\ arg \notin DOMAIN search_history'
              /\ \A q \in DOMAIN search_history \ {arg} :
                   q \in DOMAIN search_history' /\ search_history'[q] = search_history[q]
    ]_vars

\* C18: GetUnembeddedCoffees has one entry, of name and description, for each
\* record that is active and has no embedding, with or without a description,
\* and no other entry.
C18_UnembeddedAllListed ==
  /\ DOMAIN GetUnembeddedCoffees(coffee)
       = {u \in ActiveUrls(coffee) : IsNull(coffee[u].description_embedding)}
  /\ \A u \in DOMAIN GetUnembeddedCoffees(coffee) :
       GetUnembeddedCoffees(coffee)[u]
         = TextToEmbed(coffee[u].name, TextOf(coffee[u].description))

\* C19: an UpdateEmbedding that did not fail changed the embedding of the
\* record of its url and nothing else; without such a record it changed
\* nothing.
C19_UpdateEmbeddingFrame ==
  (lastCall.op = "UpdateEmbedding" /\ ~lastCall.err) =>
    /\ DOMAIN coffee = DOMAIN lastCall.before
    /\ \A u \in DOMAIN coffee :
         coffee[u] =
           IF u = lastCall.url
           THEN [lastCall.before[u] EXCEPT
                   !.description_embedding = Cell(lastCall.embedding)]
           ELSE lastCall.before[u]

\* An UpdateEmbedding that changed an inactive record, with a second record
\* stored.
C19_Witness ==
  /\ lastCall.op = "UpdateEmbedding"
  /\ ~lastCall.err
  /\ lastCall.url \in DOMAIN lastCall.before
  /\ coffee[lastCall.url].is_active = 0
  /\ coffee # lastCall.before
  /\ Cardinality(DOMAIN coffee) >= 2

\* C20: each iteration of the loop of embedder.Run takes one item off the work
\* list, whether it failed or not, adds one to the count exactly when it saved
\* the item's embedding, touches no other record, and goes on while items are
\* left; the run ends without an error when none is left.
C20_EmbedLoopAbsorbsFailures ==
  [][pc = "embed" =>
       \E url \in DOMAIN targets :
          /\ DOMAIN targets' = DOMAIN targets \ {url}
          /\ \A u \in DOMAIN coffee \ {url} : coffee'[u] = coffee[u]
          /\ report'.count =
               IF coffee'[url] # coffee[url] THEN report.count + 1 ELSE report.count
          /\ coffee'[url] # coffee[url] => ~IsNull(coffee'[url].description_embedding)
          /\ IF DOMAIN targets' = {}
             THEN pc' = "idle" /\ report'.kind = "done"
             ELSE pc' = "embed" /\ report'.kind = "running"
    ]_vars

\* A run of two items that ended with one embedding saved, the other item
\* still without.
C20_Witness ==
  /\ report.kind = "done"
  /\ report.count = 1
  /\ pc = "idle"
  /\ DOMAIN GetUnembeddedCoffees(coffee) # {}
  /\ \E u \in ActiveUrls(coffee) : ~IsNull(coffee[u].description_embedding)

\* C21: in a bulk embed run, whenever the loop goes on to the backend call of
\* the next item, the fixed delay was executed after the attempt on the item
\* before, whether that attempt succeeded, failed at the backend or failed at
\* the save of the vector.
C21_DelayAfterEveryAttempt ==
  (pc = "embed" /\ report.delay # "none") => report.delay = "slept"

\* The records that have an embedding.
Embedded(c) == {u \in DOMAIN c : ~IsNull(c[u].description_embedding)}

\* C22: with sweeps, upserts and embed runs executed one after another, a
\* record that has an embedding keeps it unchanged through every step, also
\* through an upsert that overwrites its name or description, and no target
\* of an embed run has an embedding.
C22_EmbeddingNeverDestroyed ==
  [][/\ \A u \in Embedded(coffee) :
          /\ u \in DOMAIN coffee'
          /\ coffee'[u].description_embedding = coffee[u].description_embedding
     /\ (pc' = "embed" => DOMAIN targets' \cap Embedded(coffee') = {})]_vars

\* The record of u1 was embedded from the description "d1", a later run
\* renamed it and emptied its description, and the embed command after that
\* found nothing to do.
C22_Witness ==
  /\ U1 \in Embedded(coffee)
  /\ coffee[U1].name = <<"K", "e", "2">>
  /\ IsNull(coffee[U1].description)
  /\ report.cmd = "embed"
  /\ report.kind = "nothing"

\* The results Perform scored in its last direct call, before the sort.
ScoredCandidates == Scored(lastCall.embedding, GetCoffeeVectors(lastCall.before))

\* The smaller of two numbers.
Least(a, b) == IF a < b THEN a ELSE b

\* C23: Perform returns at most 5 results, each a scored candidate and none
\* twice, as many as there are candidates up to 5, in an order in which no
\* later result has a greater score than an earlier one; and no candidate
\* left out has a greater score than a result returned.
C23_TopFiveByScore ==
  (lastCall.op = "Perform" /\ ~lastCall.err) =>
    LET results == lastCall.items
        returned == {results[i] : i \in 1..Len(results)}
    IN /\ Len(results) <= 5
       /\ Len(results) = Least(5, Cardinality(ScoredCandidates))
       /\ returned \subseteq ScoredCandidates
       /\ Cardinality(returned) = Len(results)
       /\ \A i \in 1..Len(results) : \A j \in i..Len(results) :
            ~ScoreGreater(results[j].Score, results[i].Score)
       /\ \A r \in returned : \A c \in ScoredCandidates \ returned :
            ~ScoreGreater(c.Score, r.Score)

\* Perform scored seven candidates, returned five, two of them with equal
\* scores, and left out one whose score is below all of them.
C23_Witness ==
  /\ lastCall.op = "Perform"
  /\ Cardinality(ScoredCandidates) = 7
  /\ Len(lastCall.items) = 5
  /\ ~ScoreGreater(lastCall.items[1].Score, lastCall.items[2].Score)
  /\ \E c \in ScoredCandidates : ScoreGreater(lastCall.items[5].Score, c.Score)

\* C24: the candidates a search scores are exactly the records that are
\* active and have an embedding, whichever of origin and description are
\* empty.  (The tables here hold at most three records, so every candidate
\* scored is among the results.)
C24_SearchIsExhaustive ==
  (response.kind = "search" /\ response.status = "ok") =>
    {response.results[i].URL : i \in 1..Len(response.results)}
      = ActiveUrls(coffee) \cap Embedded(coffee)

\* C25: the listing GetActiveCoffees returns holds exactly the records that
\* are active, whichever optional field of their draft was empty.
C25_ListingIsAllActive ==
  (response.kind = "list" /\ response.status = "ok") =>
    {response.results[i].URL : i \in 1..Len(response.results)} = ActiveUrls(coffee)

\* The last direct call was parseHTML(html, cfg) and returned.
Parsed == lastCall.op = "parseHTML"

\* A capital letter and its small letter.
CasePairs ==
  {<<"A", "a">>, <<"B", "b">>, <<"F", "f">>, <<"K", "k">>, <<"L", "l">>, <<"X", "x">>}

SameLetter(a, b) == a = b \/ <<a, b>> \in CasePairs \/ <<b, a>> \in CasePairs

\* kw occurs in name somewhere, letter case aside.
ContainsAnyCase(name, kw) ==
  \E i \in 1..(Len(name) + 1) :
     /\ i + Len(kw) - 1 <= Len(name)
     /\ \A j \in 1..Len(kw) : SameLetter(name[i + j - 1], kw[j])

\* The name of the row holds one of the excluded keywords of cfg.
Excluded(el, cfg) ==
  \E k \in 1..Len(cfg.DisallowedKeywords) :
     ContainsAnyCase(TrimSpace(el.text), cfg.DisallowedKeywords[k])

\* The row has a name and a url.
Complete(el) == el.row /\ TrimSpace(el.text) # EmptyString /\ el.href # EmptyString

\* C26: parseHTML emits no draft for a row whose name holds an excluded
\* keyword in any letter case of name and keyword, whatever its other fields
\* are, and the filter drops no other row: every row with a name and a url
\* and without a keyword has its draft.
C26_KeywordFilter ==
  Parsed =>
    LET html == lastCall.html
        cfg == lastCall.cfg
        out == lastCall.items
    IN /\ \A k \in 1..Len(out) :
            \A n \in 1..Len(cfg.DisallowedKeywords) :
               ~ContainsAnyCase(out[k].Name, cfg.DisallowedKeywords[n])
       /\ \A i \in 1..Len(html) :
            (Complete(html[i]) /\ Excluded(html[i], cfg)) => html[i].href \notin Urls(out)
       /\ \A i \in 1..Len(html) :
            (Complete(html[i]) /\ ~Excluded(html[i], cfg)) => html[i].href \in Urls(out)

\* With the keywords "F" and "BL", a document of the rows "able" (keyword in
\* small letters), "A BLe" and "Ke": only the last is emitted.
C26_Witness ==
  /\ Parsed
  /\ lastCall.cfg.DisallowedKeywords = << <<"F">>, <<"B", "L">> >>
  /\ Len(lastCall.html) = 3
  /\ lastCall.html[1].text = <<"a", "b", "l", "e">>
  /\ lastCall.html[2].text = <<"A", " ", "B", "L", "e">>
  /\ Urls(lastCall.items) = {U3}

\* C27: every draft parseHTML emits has a name and a url and is the draft of
\* a product row of the document; a row without a name or without a url is
\* passed over and the rows after it are still emitted; the drafts come in
\* the document order of their rows.
C27_NameAndUrlGate ==
  Parsed =>
    LET html == lastCall.html
        cfg == lastCall.cfg
        out == lastCall.items
    IN /\ \A k \in 1..Len(out) :
            /\ out[k].Name # EmptyString
            /\ out[k].URL # EmptyString
            /\ \E i \in 1..Len(html) :
                  /\ html[i].row
                  /\ html[i].href = out[k].URL
                  /\ TrimSpace(html[i].text) = out[k].Name
       /\ \A i \in 1..Len(html) :
            (Complete(html[i]) /\ ~Excluded(html[i], cfg)) => html[i].href \in Urls(out)
       /\ Cardinality(Urls(out)) = Len(out)
       /\ \A k \in 1..Len(out) : \A l \in (k + 1)..Len(out) :
            \E i \in 1..Len(html) : \E j \in (i + 1)..Len(html) :
               html[i].href = out[k].URL /\ html[j].href = out[l].URL

\* A document of a full row, a row without href and a full row: the first
\* and the third are emitted, in that order.
C27_Witness ==
  /\ Parsed
  /\ Len(lastCall.html) = 3
  /\ Complete(lastCall.html[1])
  /\ lastCall.html[2].row
  /\ lastCall.html[2].href = EmptyString
  /\ TrimSpace(lastCall.html[2].text) # EmptyString
  /\ Len(lastCall.items) = 2
  /\ lastCall.items[1].URL = U1
  /\ lastCall.items[2].URL = U3

\* The element of the document the draft was made from.
RowOf(draft) ==
  lastCall.html[CHOOSE i \in 1..Len(lastCall.html) : lastCall.html[i].href = draft.URL]

\* C28: every draft parseHTML emits has one of the three stock statuses:
\* in-stock exactly when the in-stock selector is set and matches inside the
\* row; coming-soon exactly when that is not so and the coming-soon selector
\* is set and matches; out-of-stock exactly when neither is so.
C28_StockStatusPrecedence ==
  Parsed =>
    \A k \in 1..Len(lastCall.items) :
       LET draft == lastCall.items[k]
           inStock == lastCall.cfg.StockButton /\ RowOf(draft).stock
           soon == lastCall.cfg.StockComingSoon /\ RowOf(draft).soon
       IN /\ draft.StockStatus \in {InStock, ComingSoon, OutOfStock}
          /\ (draft.StockStatus = InStock) <=> inStock
          /\ (draft.StockStatus = ComingSoon) <=> (~inStock /\ soon)
          /\ (draft.StockStatus = OutOfStock) <=> (~inStock /\ ~soon)

\* Rows that hold both indicators: with both selectors set a draft is
\* in-stock, and the call emitted a second draft, out-of-stock, of a row
\* that holds neither.
C28_Witness ==
  /\ Parsed
  /\ lastCall.cfg.StockButton
  /\ lastCall.cfg.StockComingSoon
  /\ \E k \in 1..Len(lastCall.items) :
       /\ RowOf(lastCall.items[k]).stock
       /\ RowOf(lastCall.items[k]).soon
       /\ lastCall.items[k].StockStatus = InStock
  /\ \E k \in 1..Len(lastCall.items) : lastCall.items[k].StockStatus = OutOfStock

\* The position in the document of the element the draft was made from.
IndexOf(draft) ==
  CHOOSE i \in 1..Len(lastCall.html) : lastCall.html[i].href = draft.URL

\* C29: with the description selector set and the next-row flag set, the
\* description of a draft is the text of the description elements of the
\* element that follows its row, and empty when nothing follows or when
\* that element holds none, whatever the row itself holds; with the flag
\* unset it is the text of the description elements of the row itself.  A
\* row whose description comes out empty is emitted like any other.
C29_DescriptionSource ==
  Parsed =>
    LET html == lastCall.html
        cfg == lastCall.cfg
        out == lastCall.items
    IN /\ \A k \in 1..Len(out) :
            LET i == IndexOf(out[k])
            IN /\ (cfg.Description /\ cfg.DescriptionIsNextRow /\ i < Len(html)) =>
                    out[k].Description = TrimSpace(html[i + 1].desc)
               /\ (cfg.Description /\ cfg.DescriptionIsNextRow /\ i = Len(html)) =>
                    out[k].Description = EmptyString
               /\ (cfg.Description /\ ~cfg.DescriptionIsNextRow) =>
                    out[k].Description = TrimSpace(html[i].desc)
       /\ \A i \in 1..Len(html) :
            (Complete(html[i]) /\ ~Excluded(html[i], cfg) /\ cfg.DescriptionIsNextRow
               /\ (i = Len(html) \/ html[i + 1].desc = EmptyString))
            => html[i].href \in Urls(out)

\* With the flag set: a row that holds a description of its own and is
\* followed by a row without one gets the empty description, and that
\* second row gets the description of the element after it.
C29_Witness ==
  /\ Parsed
  /\ lastCall.cfg.Description
  /\ lastCall.cfg.DescriptionIsNextRow
  /\ Len(lastCall.items) = 2
  /\ RowOf(lastCall.items[1]).desc # EmptyString
  /\ lastCall.items[1].Description = EmptyString
  /\ lastCall.items[2].Description = <<"d", "2">>

\* The last direct call was parsePrice(text) and returned.
PriceParsed == lastCall.op = "parsePrice"

RECURSIVE Pow10(_)
Pow10(k) == IF k = 0 THEN 1 ELSE 10 * Pow10(k - 1)

\* The number a string of digits writes; 0 for the empty string.
RECURSIVE IntOf(_)
IntOf(digits) ==
  IF digits = << >> THEN 0
  ELSE 10 * IntOf(SubSeq(digits, 1, Len(digits) - 1)) + DigitValue(digits[Len(digits)])

\* C30: parsePrice returns, without an error, the decimal number written by
\* the digits and the decimal point of its text, every other character
\* left out; it returns zero when that remainder has no digit or more than
\* one decimal point, and so for the empty text.
C30_ParsePrice ==
  PriceParsed =>
    LET kept == SelectSeq(lastCall.text, LAMBDA c : c \in Digits \cup {"."})
        dots == {i \in 1..Len(kept) : kept[i] = "."}
        value == lastCall.value
    IN /\ ~lastCall.err
       /\ IF Cardinality(dots) > 1 \/ Cardinality(dots) = Len(kept)
          THEN value = Zero
          ELSE LET point == IF dots = {} THEN Len(kept) + 1 ELSE CHOOSE i \in dots : TRUE
                   whole == SubSeq(kept, 1, point - 1)
                   fraction == SubSeq(kept, point + 1, Len(kept))
               IN value.m * Pow10(Len(fraction))
                    = (IntOf(whole) * Pow10(Len(fraction)) + IntOf(fraction)) * Pow10(value.e)

\* parsePrice("1,234.5") returned 1234.5.
C30_Witness ==
  /\ PriceParsed
  /\ lastCall.text = <<"1", ",", "2", "3", "4", ".", "5">>
  /\ lastCall.value = [m |-> 12345, e |-> 1]

\* C31: BytesToFloats of the bytes FloatsToBytes made of a vector succeeds
\* and returns a vector of the same length with the same 32-bit values in
\* the same order.
C31_VectorRoundTrip ==
  (lastCall.op = "BytesToFloats" /\ lastCall.embedding = FloatsToBytes(lastCall.floats)) =>
    /\ lastCall.decoded.ok
    /\ lastCall.decoded.floats = lastCall.floats

\* The urls of the results Perform returned in its last direct call.
ReturnedUrls == {lastCall.items[i].Item.URL : i \in 1..Len(lastCall.items)}

\* The vector rows of a table whose blob is a whole number of floats.
WholeBlobUrls(c) ==
  {u \in VectorUrls(c) : Len(ValueOf(c[u].description_embedding)) % 4 = 0}

\* C32: FloatsToBytes of N floats returns 4*N bytes, the first of them the
\* low byte of the first float; BytesToFloats of a blob whose length is no
\* multiple of 4 returns an error and no vector; and Perform on a table that
\* holds such a blob succeeds and returns the other records.  (The tables
\* here hold at most three records, so every candidate scored is returned.)
C32_BlobLength ==
  /\ lastCall.op = "FloatsToBytes" =>
       /\ Len(lastCall.embedding) = 4 * Len(lastCall.floats)
       /\ (lastCall.floats # << >> => lastCall.embedding[1] = lastCall.floats[1] % 256)
  /\ (lastCall.op = "BytesToFloats" /\ Len(lastCall.embedding) % 4 # 0) =>
       /\ lastCall.err
       /\ ~lastCall.decoded.ok
       /\ lastCall.decoded.floats = << >>
  /\ (lastCall.op = "Perform" /\ ~lastCall.err) =>
       ReturnedUrls = WholeBlobUrls(lastCall.before)

\* Perform on a table of two embedded records, one with a blob of three
\* bytes: it returned the other one.
C32_Witness ==
  /\ lastCall.op = "Perform"
  /\ ~lastCall.err
  /\ Cardinality(VectorUrls(lastCall.before)) = 2
  /\ Cardinality(WholeBlobUrls(lastCall.before)) = 1
  /\ Len(lastCall.items) = 1

\* The squared magnitude of a vector.
Magnitude2(v) == SumProd(v, v, Len(v))

\* The value of a score is 0.
ScoreIsZero(s) == s.zero \/ (s.magA # 0 /\ s.magB # 0 /\ s.dot = 0)

\* C33: CosineSimilarity returns 0 when the two vectors differ in length,
\* when either is empty, or when either has magnitude 0.  (The function has
\* no error result, and it indexes both vectors only when their lengths are
\* equal.)
C33_CosineZero ==
  (/\ lastCall.op = "CosineSimilarity"
   /\ \/ Len(lastCall.floats) # Len(lastCall.other)
      \/ lastCall.floats = << >>
      \/ lastCall.other = << >>
      \/ Magnitude2(lastCall.floats) = 0
      \/ Magnitude2(lastCall.other) = 0) =>
    /\ ScoreIsZero(lastCall.score)
    /\ ScoreIsZero(lastCall.back)

\* A call with a zero vector of two components and a non-zero one of the
\* same length.
C33_Witness ==
  /\ lastCall.op = "CosineSimilarity"
  /\ Len(lastCall.floats) = 2
  /\ Len(lastCall.other) = 2
  /\ Magnitude2(lastCall.floats) = 0
  /\ Magnitude2(lastCall.other) # 0
  /\ ScoreIsZero(lastCall.score)

\* Two scores dot / sqrt(magA * magB) have the same value; the components
\* of the model are not negative, so the squares decide.
ScoreEqual(s, t) ==
  /\ s.zero = t.zero
  /\ s.dot * s.dot * t.magA * t.magB = t.dot * t.dot * s.magA * s.magB

\* C34: for all vectors a and b, CosineSimilarity(a, b) equals
\* CosineSimilarity(b, a).
C34_CosineSymmetric ==
  lastCall.op = "CosineSimilarity" => ScoreEqual(lastCall.score, lastCall.back)

\* A call with two non-zero vectors of different magnitude that are not
\* orthogonal.
C34_Witness ==
  /\ lastCall.op = "CosineSimilarity"
  /\ ~lastCall.score.zero
  /\ lastCall.score.dot # 0
  /\ Magnitude2(lastCall.floats) # Magnitude2(lastCall.other)
  /\ ScoreEqual(lastCall.score, lastCall.back)

\* C35: the step of a scrape run in which the extraction yields no draft ends
\* the run at once: the command is over (SaveData and the embedding stage are
\* not reached, the table, the batch and the embedder's report are as they
\* were), the run is not a failed one, and no stored record is active; and
\* until the next run starts no record is active.
C35_NoDraftsEndsRun ==
  /\ [][(ScrapeRun /\ lastRun'.kind = "no_items") =>
          /\ pc' = "idle"
          /\ ~RunFailed'
          /\ lastRun'.stage = "scrape"
          /\ lastRun'.items = << >>
          /\ lastRun'.count = 0
          /\ coffee' = coffee
          /\ targets' = targets
          /\ report' = report
          /\ ActiveUrls(coffee') = {}]_vars
  /\ [](lastRun.kind = "no_items" => ActiveUrls(coffee) = {})

\* A run without drafts that followed a completed one: the records that run
\* stored are all inactive.
C35_Witness ==
  /\ lastRun.kind = "no_items"
  /\ prevRun.kind = "success"
  /\ pc = "idle"
  /\ DOMAIN coffee # {}
  /\ ActiveUrls(coffee) = {}

\* C36: when the automatic embedding stage of a scrape run fails (no AI
\* client, or embedder.Run returns an error) the command ends with the run
\* completed and the table as SaveData committed it: the records of the batch
\* are stored and are the active ones.
C36_AutoEmbedFailureKeepsRun ==
  [][(AutoEmbed /\ report'.kind \in {"no_client", "error"}) =>
       /\ pc' = "idle"
       /\ RunCompleted'
       /\ coffee' = coffee
       /\ Urls(lastRun'.items) \subseteq DOMAIN coffee'
       /\ ActiveUrls(coffee') = Urls(lastRun'.items)]_vars

\* A completed run whose embedding stage failed: its records are active and
\* one of them has no embedding.
C36_Witness ==
  /\ RunCompleted
  /\ pc = "idle"
  /\ report.cmd = "scrape"
  /\ report.kind \in {"no_client", "error"}
  /\ ActiveUrls(coffee) = Urls(lastRun.items)
  /\ \E u \in ActiveUrls(coffee) : IsNull(coffee[u].description_embedding)

\* C37: a SaveData that committed returns the number of items of the batch;
\* when two items of the batch have the same url, the record of that url
\* holds the fields of the later one, it is the only record with that url (a
\* new one was created once, at the time of the call), and the count is
\* greater than the number of urls of the batch.
C37_DuplicateUrlInBatch ==
  SaveDataCommitted =>
    /\ lastCall.count = Len(lastCall.items)
    /\ \A i \in 1..Len(lastCall.items) : \A j \in (i + 1)..Len(lastCall.items) :
         (lastCall.items[i].URL = lastCall.items[j].URL /\ Decides(lastCall.items, j)) =>
           LET d == lastCall.items[j]
               row == coffee[d.URL]
           IN /\ row.name = d.Name
              /\ row.price = d.Price
              /\ row.score = NullFloat64(d.Score)
              /\ row.origin = NullString(d.Origin)
              /\ row.region = NullString(d.Region)
              /\ row.tasting_notes = NullString(d.TastingNotes)
              /\ row.processing = NullString(d.Processing)
              /\ row.description = NullString(d.Description)
              /\ row.stock_status = NullString(d.StockStatus)
              /\ Cardinality({u \in DOMAIN coffee : coffee[u].url = d.URL}) = 1
              /\ Cardinality(DOMAIN coffee) =
                   Cardinality(DOMAIN lastCall.before \cup {d.URL})
              /\ (d.URL \notin DOMAIN lastCall.before =>
                    /\ row.id = Cardinality(DOMAIN lastCall.before) + 1
                    /\ row.first_scraped_at = clock)
              /\ lastCall.count > Cardinality(Urls(lastCall.items))

\* The batch of TestDatabaseUPSERT saved in one call on an empty table: one
\* record, with the name and the price of the second item, and a count of 2.
C37_Witness ==
  /\ SaveDataCommitted
  /\ lastCall.items = << Item1, Item2 >>
  /\ lastCall.before = EmptyTable
  /\ lastCall.count = 2
  /\ DOMAIN coffee = {U1}
  /\ coffee[U1].name = Item2.Name
  /\ coffee[U1].price = Item2.Price

====
